---------------------------- MODULE Spec2Model ----------------------------
(***************************************************************************)
(* Verification model of the OfflineQuizWhiz generation pipeline:          *)
(*   - Question.validate                  (src/src/models/models.py)       *)
(*   - MCQGenerator.generate_mcqs         (src/mcq_generator.py)           *)
(*   - MultimodalMCQGenerator             (src/multimodal_generator.py)    *)
(*   - QuestionBank, PaperBuilder         (src/paper_builder.py)           *)
(*                                                                         *)
(* Text is modelled as a sequence of one-character strings, so that        *)
(* str.strip(), str.lower(), str.upper() and len() are computed and not    *)
(* assumed.  "I_dot" stands for U+0130 and "dot_above" for U+0307: Python  *)
(* lower-cases the former to the two characters "i" + U+0307.              *)
(***************************************************************************)
EXTENDS Integers, Sequences, FiniteSets, TLC

(***************************************************************************)
(* Bounds of the exploration.                                              *)
(***************************************************************************)
MaxN == 3
MaxResp == 2
MaxCount == 5
MaxTopics == 2
MaxPaperCount == 1
MaxSections == 2
MaxPaperLen == 2
MaxBatch == 2
MaxArrayLen == 2
MaxTextLen == 4
MaxBatchResp == 3
MaxRetries == 3
MaxRaceBatch == 2

(***************************************************************************)
(* Program constants.                                                      *)
(***************************************************************************)
BaseMinExplanation == 20
DefaultMinExplanationLength == 20
DefaultMinReferences == 1
DefaultMaxRetries == 3
DefaultRetryDelaySeconds == 2
DefaultMaxValidationRetries == 2
MinOptionLength == 2

(***************************************************************************)
(* Text helpers.                                                           *)
(***************************************************************************)
Whitespace == {" "}

RECURSIVE lstrip(_)
lstrip(s) ==
    IF s = <<>> THEN <<>>
    ELSE IF Head(s) \in Whitespace THEN lstrip(Tail(s)) ELSE s

RECURSIVE rstrip(_)
rstrip(s) ==
    IF s = <<>> THEN <<>>
    ELSE IF s[Len(s)] \in Whitespace THEN rstrip(SubSeq(s, 1, Len(s) - 1)) ELSE s

strip(s) == rstrip(lstrip(s))

lower_char(c) ==
    CASE c = "A" -> <<"a">>
      [] c = "B" -> <<"b">>
      [] c = "C" -> <<"c">>
      [] c = "D" -> <<"d">>
      [] c = "E" -> <<"e">>
      [] c = "I_dot" -> <<"i", "dot_above">>
      [] OTHER -> <<c>>

RECURSIVE lower(_)
lower(s) == IF s = <<>> THEN <<>> ELSE lower_char(Head(s)) \o lower(Tail(s))

upper_char(c) ==
    CASE c = "a" -> <<"A">>
      [] c = "b" -> <<"B">>
      [] c = "c" -> <<"C">>
      [] c = "d" -> <<"D">>
      [] c = "e" -> <<"E">>
      [] c = "i" -> <<"I">>
      [] OTHER -> <<c>>

RECURSIVE upper(_)
upper(s) == IF s = <<>> THEN <<>> ELSE upper_char(Head(s)) \o upper(Tail(s))

\* k copies of the character c
Rep(c, k) == [i \in 1..k |-> c]

(***************************************************************************)
(* JSON values of a raw record, and Python's str() of them.                *)
(***************************************************************************)
JStr(s) == [t |-> "str", s |-> s]
JNull == [t |-> "null", s |-> <<>>]
JList(items) == [t |-> "list", items |-> items]

py_str(v) ==
    IF v.t = "str" THEN v.s
    ELSE IF v.t = "null" THEN <<"N", "o", "n", "e">>
    ELSE <<"?">>

(***************************************************************************)
(* Question.validate: every check is applied, violations are collected.    *)
(***************************************************************************)
ValidMarkers == {<<"A">>, <<"B">>, <<"C">>, <<"D">>}

question_options(q) == <<q.option_a_en, q.option_b_en, q.option_c_en, q.option_d_en>>

normalized_options(q) == [i \in 1..4 |-> lower(strip(question_options(q)[i]))]

has_duplicates(seq) == \E i, j \in DOMAIN seq : i < j /\ seq[i] = seq[j]

\* mutation: validate stops at the first violation
validate_short_circuit(q) ==
    LET all ==
           (IF strip(q.question_text_en) = <<>> THEN <<"question_text_empty">> ELSE <<>>)
        \o (IF strip(q.option_a_en) = <<>> THEN <<"option_a_empty">> ELSE <<>>)
        \o (IF strip(q.option_b_en) = <<>> THEN <<"option_b_empty">> ELSE <<>>)
        \o (IF strip(q.option_c_en) = <<>> THEN <<"option_c_empty">> ELSE <<>>)
        \o (IF strip(q.option_d_en) = <<>> THEN <<"option_d_empty">> ELSE <<>>)
        \o (IF q.correct_answer \notin ValidMarkers THEN <<"bad_correct_answer">> ELSE <<>>)
        \o (IF strip(q.explanation) = <<>> THEN <<"explanation_empty">>
            ELSE IF Len(strip(q.explanation)) < BaseMinExplanation
                 THEN <<"explanation_too_short">> ELSE <<>>)
        \o (IF has_duplicates(normalized_options(q)) THEN <<"duplicate_options">> ELSE <<>>)
        \o (IF strip(q.test_section) = <<>> THEN <<"test_section_empty">> ELSE <<>>)
        \o (IF strip(q.main_topic) = <<>> THEN <<"main_topic_empty">> ELSE <<>>)
    IN IF all = <<>> THEN <<>> ELSE <<all[1]>>

\* mutation: the length check of the explanation is an `if`, not an `elif`
validate_no_elif(q) ==
       (IF strip(q.question_text_en) = <<>> THEN <<"question_text_empty">> ELSE <<>>)
    \o (IF strip(q.option_a_en) = <<>> THEN <<"option_a_empty">> ELSE <<>>)
    \o (IF strip(q.option_b_en) = <<>> THEN <<"option_b_empty">> ELSE <<>>)
    \o (IF strip(q.option_c_en) = <<>> THEN <<"option_c_empty">> ELSE <<>>)
    \o (IF strip(q.option_d_en) = <<>> THEN <<"option_d_empty">> ELSE <<>>)
    \o (IF q.correct_answer \notin ValidMarkers THEN <<"bad_correct_answer">> ELSE <<>>)
    \o (IF strip(q.explanation) = <<>> THEN <<"explanation_empty">> ELSE <<>>)
    \o (IF Len(strip(q.explanation)) < BaseMinExplanation
        THEN <<"explanation_too_short">> ELSE <<>>)
    \o (IF has_duplicates(normalized_options(q)) THEN <<"duplicate_options">> ELSE <<>>)
    \o (IF strip(q.test_section) = <<>> THEN <<"test_section_empty">> ELSE <<>>)
    \o (IF strip(q.main_topic) = <<>> THEN <<"main_topic_empty">> ELSE <<>>)

validate(q) ==
       (IF strip(q.question_text_en) = <<>> THEN <<"question_text_empty">> ELSE <<>>)
    \o (IF strip(q.option_a_en) = <<>> THEN <<"option_a_empty">> ELSE <<>>)
    \o (IF strip(q.option_b_en) = <<>> THEN <<"option_b_empty">> ELSE <<>>)
    \o (IF strip(q.option_c_en) = <<>> THEN <<"option_c_empty">> ELSE <<>>)
    \o (IF strip(q.option_d_en) = <<>> THEN <<"option_d_empty">> ELSE <<>>)
    \o (IF q.correct_answer \notin ValidMarkers THEN <<"bad_correct_answer">> ELSE <<>>)
    \o (IF strip(q.explanation) = <<>> THEN <<"explanation_empty">>
        ELSE IF Len(strip(q.explanation)) < BaseMinExplanation
             THEN <<"explanation_too_short">> ELSE <<>>)
    \o (IF has_duplicates(normalized_options(q)) THEN <<"duplicate_options">> ELSE <<>>)
    \o (IF strip(q.test_section) = <<>> THEN <<"test_section_empty">> ELSE <<>>)
    \o (IF strip(q.main_topic) = <<>> THEN <<"main_topic_empty">> ELSE <<>>)

(***************************************************************************)
(* MCQGenerator._passes_additional_validation                              *)
(***************************************************************************)
options_long_enough(q) ==
    \A i \in 1..4 : ~(Len(lower(question_options(q)[i])) < MinOptionLength)

passes_additional_validation(q, cfg) ==
    /\ ~(Len(q.explanation) < cfg.min_explanation_length)
    /\ ~(cfg.require_references /\ Len(q.references) < cfg.min_references)
    /\ options_long_enough(q)

(***************************************************************************)
(* MCQGenerator._dict_to_question.  A raw record is a function from field  *)
(* names to JSON values; a mapping with the single key "not_a_dict"        *)
(* stands for a non-mapping element of the parsed list (a number), on      *)
(* which the membership test raises TypeError.  The result is either a     *)
(* question or the marker Raised.                                          *)
(***************************************************************************)
RequiredFields == {"question_text_en", "option_a_en", "option_b_en", "option_c_en",
                   "option_d_en", "correct_answer", "explanation"}

Raised == [raised |-> TRUE]

coerce_references(d) ==
    IF "references" \notin DOMAIN d THEN <<>>
    ELSE IF d["references"].t = "str" THEN <<d["references"]>>
    ELSE IF d["references"].t = "list" THEN d["references"].items
    ELSE <<>>

dict_to_question(d, test_section, main_topic, subtopic, difficulty) ==
    IF "not_a_dict" \in DOMAIN d THEN Raised
    ELSE IF ~(RequiredFields \subseteq DOMAIN d) THEN Raised
    ELSE [ test_section     |-> test_section,
           main_topic       |-> main_topic,
           subtopic         |-> subtopic,
           difficulty       |-> difficulty,
           question_text_en |-> strip(py_str(d["question_text_en"])),
           option_a_en      |-> strip(py_str(d["option_a_en"])),
           option_b_en      |-> strip(py_str(d["option_b_en"])),
           option_c_en      |-> strip(py_str(d["option_c_en"])),
           option_d_en      |-> strip(py_str(d["option_d_en"])),
           correct_answer   |-> upper(strip(py_str(d["correct_answer"]))),
           explanation      |-> strip(py_str(d["explanation"])),
           references       |-> [i \in DOMAIN coerce_references(d) |->
                                     strip(py_str(coerce_references(d)[i]))] ]


(***************************************************************************)
(* State.  The variables of the Section Builder and of the Question Bank  *)
(* and Paper Assembler are described where their actions are defined.     *)
(*   Generation loop (MCQGenerator.generate_mcqs):                         *)
(*     n, config, ctx      the call's arguments and the generator's config *)
(*     questions, attempts the loop's locals                               *)
(*     gen_pc              "idle", "loop", "returned" or "raised"          *)
(*     calls               number of llm_client.generate calls made        *)
(*     last                what the latest attempt's model call produced,  *)
(*                         the num_questions its prompt asked for and how  *)
(*                         many records of the response pass both layers   *)
(*     every_unparseable   every model call so far returned unparseable    *)
(*                         text                                            *)
(*     every_good          every model call so far returned a list with at *)
(*                         least one record passing both validation layers *)
(***************************************************************************)
VARIABLES n, config, ctx, questions, attempts, gen_pc, calls, last,
          every_unparseable, every_good

genVars == <<n, config, ctx, questions, attempts, gen_pc, calls, last,
            every_unparseable, every_good>>

VARIABLES section, diagram_pairs, band_idx, topic_idx, sec_questions, requested,
          allocations, last_cell, sec_pc

secVars == <<section, diagram_pairs, band_idx, topic_idx, sec_questions, requested,
             allocations, last_cell, sec_pc>>

VARIABLES file, used_question_ids, all_questions, pb_pc, pb_pairs, paper_questions,
          sections_done, paper, ever_built, last_add, loads, reused

paperVars == <<file, used_question_ids, all_questions, pb_pc, pb_pairs, paper_questions,
               sections_done, paper, ever_built, last_add, loads, reused>>

\* direct calls of the pure functions: Question.validate and the parser
VARIABLES val_q, val_out

valVars == <<val_q, val_out>>

VARIABLES parse_src, parse_text, parse_out

parseVars == <<parse_src, parse_text, parse_out>>

\* the for loop over the records of one parsed response, on its own
VARIABLES batch_in, batch_out

batchVars == <<batch_in, batch_out>>

\* one call of a raw model client (LLMClient.generate or
\* VLMClient.generate_multimodal)
VARIABLES cl_config, cl_attempt, cl_http, cl_waits, cl_failures, cl_pc, cl_result

clientVars == <<cl_config, cl_attempt, cl_http, cl_waits, cl_failures, cl_pc, cl_result>>

\* two QuestionBank instances over one state file
VARIABLES race_file, race_used, race_all, race_batch, race_pc, race_hist

raceVars == <<race_file, race_used, race_all, race_batch, race_pc, race_hist>>

pureVars == <<valVars, parseVars, batchVars, clientVars, raceVars>>

vars == <<genVars, secVars, paperVars, pureVars>>

(***************************************************************************)
(* Inputs of the generation loop.                                          *)
(***************************************************************************)
GenerationConfig(minExpl, reqRefs, minRefs, retries) ==
    [ min_explanation_length |-> minExpl,
      require_references     |-> reqRefs,
      min_references         |-> minRefs,
      max_validation_retries |-> retries ]

RetryLimits == 0..DefaultMaxValidationRetries

\* the default configuration, a stricter one and one without required references
Configs ==
    { GenerationConfig(DefaultMinExplanationLength, TRUE, DefaultMinReferences, r) :
          r \in RetryLimits }
    \cup { GenerationConfig(DefaultMinExplanationLength + 2, TRUE, DefaultMinReferences + 1,
                            DefaultMaxValidationRetries),
           GenerationConfig(DefaultMinExplanationLength, FALSE, DefaultMinReferences,
                            DefaultMaxValidationRetries) }

NoneArg == "None"

\* (test_section argument, main_topic, subtopic, difficulty) of a call
Contexts ==
    { [test_section |-> NoneArg,      main_topic |-> <<"m">>, subtopic |-> <<"u">>,
       difficulty |-> "Easy"],
      [test_section |-> <<"s">>,      main_topic |-> <<"m">>, subtopic |-> <<"v">>,
       difficulty |-> "Hard"],
      [test_section |-> <<"s">>,      main_topic |-> <<" ">>, subtopic |-> <<"u">>,
       difficulty |-> "Medium"] }

\* test_section = test_section or main_topic
effective_test_section(c) ==
    IF c.test_section = NoneArg \/ c.test_section = <<>> THEN c.main_topic
    ELSE c.test_section

(***************************************************************************)
(* Raw records a model response can hold.                                  *)
(***************************************************************************)
R_good ==
    [ question_text_en |-> JStr(<<" ", "q", "?">>),
      option_a_en      |-> JStr(<<"a", "a", " ">>),
      option_b_en      |-> JStr(<<"b", "b">>),
      option_c_en      |-> JStr(<<"c", "c">>),
      option_d_en      |-> JStr(<<"d", "d">>),
      correct_answer   |-> JStr(<<" ", "b">>),
      explanation      |-> JStr(Rep("x", BaseMinExplanation) \o <<" ">>),
      references       |-> JList(<<JStr(<<"r">>)>>) ]

without(d, f) == [k \in (DOMAIN d) \ {f} |-> d[k]]

R_missing_field   == without(R_good, "explanation")
R_bad_answer      == [R_good EXCEPT !.correct_answer = JStr(<<"E">>)]
R_short_expl      == [R_good EXCEPT !.explanation =
                          JStr(<<" ", " ">> \o Rep("x", BaseMinExplanation - 1))]
R_null_expl       == [R_good EXCEPT !.explanation = JNull]
R_expl_plus_one   == [R_good EXCEPT !.explanation = JStr(Rep("x", BaseMinExplanation + 1))]
R_no_refs         == without(R_good, "references")
R_refs_string     == [R_good EXCEPT !.references = JStr(<<"r", " ">>)]
R_refs_null       == [R_good EXCEPT !.references = JNull]
R_short_option    == [R_good EXCEPT !.option_c_en = JStr(<<"c">>)]
R_idot_option     == [R_good EXCEPT !.option_c_en = JStr(<<"I_dot">>)]
R_dup_options     == [R_good EXCEPT !.option_c_en = JStr(<<"A", "a">>)]
R_not_a_dict      == [not_a_dict |-> JNull]

RawRecords ==
    { R_good, R_missing_field, R_bad_answer, R_short_expl, R_null_expl, R_expl_plus_one,
      R_no_refs, R_refs_string, R_refs_null, R_short_option, R_idot_option,
      R_dup_options, R_not_a_dict }

\* records that occur in responses of more than one record
CoreRecords == { R_good, R_idot_option, R_missing_field }

SeqsOfLen(S, k) == [1..k -> S]

Responses ==
    {<<>>} \cup SeqsOfLen(RawRecords, 1)
           \cup UNION { SeqsOfLen(CoreRecords, k) : k \in 2..MaxResp }

(***************************************************************************)
(* One record of a parsed response (lines 111-141): conversion, base gate, *)
(* additional validation; every failure skips the record.                  *)
(***************************************************************************)
candidate(d, c) ==
    dict_to_question(d, effective_test_section(c), c.main_topic, c.subtopic, c.difficulty)

record_accepted(d, c, cfg) ==
    LET q == candidate(d, c) IN
    /\ "raised" \notin DOMAIN q
    /\ validate(q) = <<>>
    /\ passes_additional_validation(q, cfg)

\* number of records of a response that pass both validation layers
valid_records(resp, c, cfg) ==
    Cardinality({i \in DOMAIN resp : record_accepted(resp[i], c, cfg)})

\* mutation: without `if len(questions) >= n: break`
RECURSIVE process_records_no_quota(_, _, _, _, _, _)
process_records_no_quota(acc, resp, i, target, c, cfg) ==
    IF i > Len(resp) THEN acc
    ELSE IF record_accepted(resp[i], c, cfg)
         THEN process_records_no_quota(Append(acc, candidate(resp[i], c)), resp, i + 1,
                                       target, c, cfg)
         ELSE process_records_no_quota(acc, resp, i + 1, target, c, cfg)

\* mutation: the try is around the for loop, a record that cannot be
\* converted ends the batch
RECURSIVE process_records_outer_try(_, _, _, _, _, _)
process_records_outer_try(acc, resp, i, target, c, cfg) ==
    IF i > Len(resp) THEN acc
    ELSE IF Len(acc) >= target THEN acc
    ELSE IF "raised" \in DOMAIN candidate(resp[i], c) THEN acc
    ELSE IF record_accepted(resp[i], c, cfg)
         THEN process_records_outer_try(Append(acc, candidate(resp[i], c)), resp, i + 1,
                                        target, c, cfg)
         ELSE process_records_outer_try(acc, resp, i + 1, target, c, cfg)

\* mutation: the first record that fails ends the batch
RECURSIVE process_records_abort(_, _, _, _, _, _)
process_records_abort(acc, resp, i, target, c, cfg) ==
    IF i > Len(resp) THEN acc
    ELSE IF Len(acc) >= target THEN acc
    ELSE IF record_accepted(resp[i], c, cfg)
         THEN process_records_abort(Append(acc, candidate(resp[i], c)), resp, i + 1,
                                    target, c, cfg)
         ELSE acc

\* the for loop over question_dicts, from record i on
RECURSIVE process_records(_, _, _, _, _, _)
process_records(acc, resp, i, target, c, cfg) ==
    IF i > Len(resp) THEN acc
    ELSE IF Len(acc) >= target THEN acc
    ELSE IF record_accepted(resp[i], c, cfg)
         THEN process_records(Append(acc, candidate(resp[i], c)), resp, i + 1, target, c, cfg)
         ELSE process_records(acc, resp, i + 1, target, c, cfg)

\* mutation: the retries alone, without the first try of each question
max_attempts_retries_only == n * config.max_validation_retries

max_attempts == n * (1 + config.max_validation_retries)

loop_condition == Len(questions) < n /\ attempts < max_attempts

(***************************************************************************)
(* Actions of the generation loop.                                         *)
(***************************************************************************)
GenInit ==
    /\ n \in 1..MaxN
    /\ config \in Configs
    /\ ctx \in Contexts
    /\ questions = <<>>
    /\ attempts = 0
    /\ gen_pc = "loop"
    /\ calls = 0
    /\ last = [kind |-> "none", asked |-> 0, valid |-> 0]
    /\ every_unparseable = TRUE
    /\ every_good = TRUE

\* llm_client.generate raises: the attempt is abandoned (lines 103, 143-145)
AttemptModelError ==
    /\ gen_pc = "loop" /\ loop_condition
    /\ attempts' = attempts + 1
    /\ calls' = calls + 1
    /\ last' = [kind |-> "model_error", asked |-> n - Len(questions), valid |-> 0]
    /\ every_unparseable' = FALSE
    /\ every_good' = FALSE
    /\ UNCHANGED <<n, config, ctx, questions, gen_pc>>
    /\ UNCHANGED <<secVars, paperVars, pureVars>>

\* mutation: the ValueError of the parser is not caught
AttemptParseError_escapes ==
    /\ gen_pc = "loop" /\ loop_condition
    /\ attempts' = attempts + 1
    /\ calls' = calls + 1
    /\ last' = [kind |-> "unparseable", asked |-> n - Len(questions), valid |-> 0]
    /\ every_good' = FALSE
    /\ gen_pc' = "raised"
    /\ UNCHANGED every_unparseable
    /\ UNCHANGED <<n, config, ctx, questions>>
    /\ UNCHANGED <<secVars, paperVars, pureVars>>

\* _parse_llm_response raises ValueError (lines 107, 143-145)
AttemptParseError ==
    /\ gen_pc = "loop" /\ loop_condition
    /\ attempts' = attempts + 1
    /\ calls' = calls + 1
    /\ last' = [kind |-> "unparseable", asked |-> n - Len(questions), valid |-> 0]
    /\ every_good' = FALSE
    /\ UNCHANGED every_unparseable
    /\ UNCHANGED <<n, config, ctx, questions, gen_pc>>
    /\ UNCHANGED <<secVars, paperVars, pureVars>>

\* mutation: every prompt asks for n questions
AttemptParsed_asks_n(resp) ==
    /\ gen_pc = "loop" /\ loop_condition
    /\ attempts' = attempts + 1
    /\ calls' = calls + 1
    /\ questions' = process_records(questions, resp, 1, n, ctx, config)
    /\ last' = [kind |-> "parsed", asked |-> n,
                valid |-> valid_records(resp, ctx, config)]
    /\ every_unparseable' = FALSE
    /\ every_good' = (every_good /\ \E i \in DOMAIN resp : record_accepted(resp[i], ctx, config))
    /\ UNCHANGED <<n, config, ctx, gen_pc>>
    /\ UNCHANGED <<secVars, paperVars, pureVars>>

\* the response parses to the list resp (lines 107-141)
AttemptParsed(resp) ==
    /\ gen_pc = "loop" /\ loop_condition
    /\ attempts' = attempts + 1
    /\ calls' = calls + 1
    /\ questions' = process_records(questions, resp, 1, n, ctx, config)
    /\ last' = [kind |-> "parsed", asked |-> n - Len(questions),
                valid |-> valid_records(resp, ctx, config)]
    /\ every_unparseable' = FALSE
    /\ every_good' = (every_good /\ \E i \in DOMAIN resp : record_accepted(resp[i], ctx, config))
    /\ UNCHANGED <<n, config, ctx, gen_pc>>
    /\ UNCHANGED <<secVars, paperVars, pureVars>>

\* mutation: a short result raises as well
LoopExit_raise_when_short ==
    /\ gen_pc = "loop" /\ ~loop_condition
    /\ gen_pc' = IF Len(questions) < n THEN "raised" ELSE "returned"
    /\ UNCHANGED <<n, config, ctx, questions, attempts, calls, last,
                   every_unparseable, every_good>>
    /\ UNCHANGED <<secVars, paperVars, pureVars>>

\* after the loop (lines 147-157)
LoopExit ==
    /\ gen_pc = "loop" /\ ~loop_condition
    /\ gen_pc' = IF Len(questions) = 0 THEN "raised" ELSE "returned"
    /\ UNCHANGED <<n, config, ctx, questions, attempts, calls, last,
                   every_unparseable, every_good>>
    /\ UNCHANGED <<secVars, paperVars, pureVars>>

GenNext ==
    \/ AttemptModelError
    \/ AttemptParseError
    \/ \E resp \in Responses : AttemptParsed(resp)
    \/ LoopExit



(***************************************************************************)
(* Claims about the generation loop (checked under SpecGen).               *)
(***************************************************************************)

\* C1: the loop never makes more than N * (1 + max_validation_retries)
\* attempts, and when every model call returned unparseable text the call
\* ends with exactly that many attempts and raises the generation error.
C1_RetryBound ==
    /\ attempts <= n * (1 + config.max_validation_retries)
    /\ calls = attempts
    /\ (gen_pc # "loop" /\ every_unparseable) =>
           /\ attempts = n * (1 + config.max_validation_retries)
           /\ gen_pc = "raised"

C1_Witness ==
    /\ gen_pc = "raised" /\ every_unparseable
    /\ n = 3
    /\ config.max_validation_retries = DefaultMaxValidationRetries
    /\ attempts = 9

\* C2: generate_mcqs raises exactly when no question was accepted at the end
\* of the loop; an exhausted budget with 1..N-1 accepted questions returns
\* the shorter list.
C2_RaiseIffNoneAccepted ==
    /\ gen_pc = "raised" => (Len(questions) = 0 /\ ~loop_condition)
    /\ gen_pc = "returned" => (Len(questions) >= 1 /\ ~loop_condition)
    /\ (gen_pc # "loop" /\ Len(questions) = 0) => gen_pc = "raised"
    /\ (gen_pc # "loop" /\ Len(questions) \in 1..(n - 1)) =>
           (gen_pc = "returned" /\ attempts = n * (1 + config.max_validation_retries))

C2_Witness ==
    /\ gen_pc = "returned"
    /\ Len(questions) \in 1..(n - 1)
    /\ attempts = n * (1 + config.max_validation_retries)

\* C3 (as claimed): every accepted question passes the base gate, has an
\* explanation of at least config.min_explanation_length characters, has at
\* least config.min_references references when they are required, and has no
\* option text shorter than 2 characters.
C3_AcceptedPassBothLayers ==
    \A i \in DOMAIN questions :
        LET q == questions[i] IN
        /\ validate(q) = <<>>
        /\ Len(q.explanation) >= config.min_explanation_length
        /\ (config.require_references => Len(q.references) >= config.min_references)
        /\ \A k \in 1..4 : Len(question_options(q)[k]) >= MinOptionLength

\* C7: when every model call returned at least one record that passes both
\* validation layers, the call returns exactly N questions after at most N
\* model calls, each carrying the requested difficulty, main topic, subtopic.
C7_AllGoodGivesN ==
    (gen_pc # "loop" /\ every_good) =>
        /\ gen_pc = "returned"
        /\ Len(questions) = n
        /\ calls <= n
        /\ \A i \in DOMAIN questions :
               /\ questions[i].difficulty = ctx.difficulty
               /\ questions[i].main_topic = ctx.main_topic
               /\ questions[i].subtopic = ctx.subtopic

C7_Witness ==
    /\ gen_pc = "returned" /\ every_good
    /\ n = 2 /\ calls = 2 /\ Len(questions) = 2
    /\ ctx.difficulty = "Easy"
    /\ \A i \in DOMAIN questions : questions[i].difficulty = "Easy"


(***************************************************************************)
(* Section Builder (PaperBuilder._build_section).                          *)
(*   section          the PaperSection being built                         *)
(*   diagram_pairs    "none" (None), "empty" ([]) or "pairs" (non-empty)   *)
(*   band_idx         position in difficulty_distribution.items()          *)
(*   topic_idx        position in section.topics within the band           *)
(*   sec_questions    the local list `questions`                           *)
(*   requested        sum of the n passed to generation, one per cell      *)
(*   allocations      the band last entered and the topic_count of each of *)
(*                    its topics handled so far                            *)
(*   last_cell        what happened in the latest cell                     *)
(*   sec_pc           "idle", "run", "returned" or "raised"                *)
(***************************************************************************)

DifficultyNames == {"EASY", "MEDIUM", "HARD"}

\* difficulty_str.upper() on the labels used as inputs
label_upper(label) ==
    CASE label = "Easy"   -> "EASY"
      [] label = "hard"   -> "HARD"
      [] label = "Expert" -> "EXPERT"
      [] OTHER            -> label

Labels == {"Easy", "hard", "Expert"}

\* DifficultyLevel[...] raises KeyError for a name that is no member
label_is_difficulty(label) == label_upper(label) \in DifficultyNames

Band(label, count) == [label |-> label, count |-> count]

\* difficulty_distribution: a dict, iterated in insertion order, keys distinct
Distributions(maxCount) ==
    {<<>>}
    \cup { <<Band(l, c)>> : l \in Labels, c \in 0..maxCount }
    \cup { <<Band("Easy", c1), Band("hard", c2)>> : c1 \in 0..maxCount, c2 \in 0..maxCount }
    \cup { <<Band("hard", c1), Band("Expert", c2)>> : c1 \in 0..maxCount, c2 \in 0..1 }

\* topic dicts; the second has no "subtopic" key, the third no "main_topic" key
TopicSpec(i) ==
    IF i = 2 THEN [main_topic |-> <<"T", i>>]
    ELSE IF i = 3 THEN [subtopic |-> <<"U", i>>]
    ELSE [main_topic |-> <<"T", i>>, subtopic |-> <<"U", i>>]

General == <<"G">>

\* dict.get(key, "General")
topic_get(spec, key) == IF key \in DOMAIN spec THEN spec[key] ELSE General

TopicLists(maxTopics) == { [i \in 1..t |-> TopicSpec(i)] : t \in 0..maxTopics }

PaperSection(name, question_count, dist, topics) ==
    [ name |-> name, question_count |-> question_count,
      difficulty_distribution |-> dist, topics |-> topics ]

SectionConfigs(maxCount, maxTopics, names) ==
    { PaperSection(nm, qc, d, t) :
        nm \in names, qc \in 1..maxCount,
        d \in Distributions(maxCount), t \in TopicLists(maxTopics) }

(***************************************************************************)
(* Per-topic allocation (lines 276-281); i is the 0-based enumerate index. *)
(***************************************************************************)
questions_per_topic(count, numTopics) == count \div numTopics

remainder(count, numTopics) == count % numTopics

\* mutation: the extra unit goes to one topic too many
topic_count_off_by_one(count, numTopics, i) ==
    questions_per_topic(count, numTopics) + (IF i <= remainder(count, numTopics) THEN 1 ELSE 0)

topic_count(count, numTopics, i) ==
    questions_per_topic(count, numTopics) + (IF i < remainder(count, numTopics) THEN 1 ELSE 0)

(***************************************************************************)
(* Questions as the Section Builder sees them: what the generators stamp   *)
(* (test_section = main_topic, has_diagram) and the fields it overwrites.  *)
(***************************************************************************)
generated_question(main_topic, subtopic, difficulty, has_diagram) ==
    [ test_section |-> main_topic, main_topic |-> main_topic, subtopic |-> subtopic,
      difficulty |-> difficulty, has_diagram |-> has_diagram ]

\* mutation: the questions keep the section name the generator gave them
stamp_skipped(qs, name) == qs

\* for q in topic_questions: q.test_section = section.name
stamp(qs, name) == [i \in DOMAIN qs |-> [qs[i] EXCEPT !.test_section = name]]

cur_band == section.difficulty_distribution[band_idx]
num_topics == Len(section.topics)
cur_topic == section.topics[topic_idx]
cur_topic_count == topic_count(cur_band.count, num_topics, topic_idx - 1)

has_pairs == diagram_pairs = "pairs"

in_band == sec_pc = "run" /\ band_idx <= Len(section.difficulty_distribution)

\* the band's guards passed: count # 0, the label is a difficulty, topics exist
in_cell ==
    /\ in_band
    /\ cur_band.count # 0
    /\ label_is_difficulty(cur_band.label)
    /\ num_topics > 0

\* cursor after the current cell
next_band_idx == IF topic_idx < num_topics THEN band_idx ELSE band_idx + 1
next_topic_idx == IF topic_idx < num_topics THEN topic_idx + 1 ELSE 1

NoAllocations == [band |-> 0, counts |-> <<>>]

note_allocation ==
    allocations' = [band |-> band_idx,
                    counts |-> IF topic_idx = 1 THEN <<cur_topic_count>>
                               ELSE Append(allocations.counts, cur_topic_count)]

NoCell == [n |-> 0, multimodal |-> "none", multimodal_got |-> 0,
           text |-> FALSE, text_n |-> 0, text_got |-> 0]

cell_questions(k, has_diagram) ==
    stamp([j \in 1..k |->
              generated_question(topic_get(cur_topic, "main_topic"),
                                 topic_get(cur_topic, "subtopic"),
                                 label_upper(cur_band.label), has_diagram)],
          section.name)

SectionInit ==
    /\ section \in SectionConfigs(MaxCount, MaxTopics, {<<"S", 1>>})
    /\ diagram_pairs \in {"none", "empty", "pairs"}
    /\ band_idx = 1
    /\ topic_idx = 1
    /\ sec_questions = <<>>
    /\ requested = 0
    /\ allocations = NoAllocations
    /\ last_cell = NoCell
    /\ sec_pc = "run"

\* if count == 0: continue (lines 264-265)
SkipZeroBand ==
    /\ in_band /\ cur_band.count = 0
    /\ band_idx' = band_idx + 1
    /\ UNCHANGED <<section, diagram_pairs, topic_idx, sec_questions, requested,
                   allocations, last_cell, sec_pc>>
    /\ UNCHANGED <<genVars, paperVars, pureVars>>

\* DifficultyLevel[difficulty_str.upper()] raises KeyError (line 267)
BandBadLabel ==
    /\ in_band /\ cur_band.count # 0 /\ ~label_is_difficulty(cur_band.label)
    /\ sec_pc' = "raised"
    /\ UNCHANGED <<section, diagram_pairs, band_idx, topic_idx, sec_questions, requested,
                   allocations, last_cell>>
    /\ UNCHANGED <<genVars, paperVars, pureVars>>

\* if not section.topics: continue (lines 272-274)
SkipBandNoTopics ==
    /\ in_band /\ cur_band.count # 0 /\ label_is_difficulty(cur_band.label)
    /\ num_topics = 0
    /\ band_idx' = band_idx + 1
    /\ UNCHANGED <<section, diagram_pairs, topic_idx, sec_questions, requested,
                   allocations, last_cell, sec_pc>>
    /\ UNCHANGED <<genVars, paperVars, pureVars>>

\* mutation: a cell with a count of 0 is not skipped, text-only generation
\* is asked for 0 questions and returns none
SkipZeroCell_calls ==
    /\ in_cell /\ cur_topic_count = 0
    /\ note_allocation
    /\ last_cell' = [n |-> 0, multimodal |-> "none", multimodal_got |-> 0,
                     text |-> TRUE, text_n |-> 0, text_got |-> 0]
    /\ band_idx' = next_band_idx /\ topic_idx' = next_topic_idx
    /\ UNCHANGED <<section, diagram_pairs, sec_questions, requested, sec_pc>>
    /\ UNCHANGED <<genVars, paperVars, pureVars>>

\* if topic_count == 0: continue (lines 283-284)
SkipZeroCell ==
    /\ in_cell /\ cur_topic_count = 0
    /\ note_allocation
    /\ band_idx' = next_band_idx /\ topic_idx' = next_topic_idx
    /\ UNCHANGED <<section, diagram_pairs, sec_questions, requested, last_cell, sec_pc>>
    /\ UNCHANGED <<genVars, paperVars, pureVars>>

\* text-only generation returns k questions (lines 329-341); generate_mcqs
\* returns between 1 and n questions or raises
CellText(k) ==
    /\ in_cell /\ cur_topic_count # 0 /\ ~has_pairs
    /\ k \in 1..cur_topic_count
    /\ note_allocation
    /\ requested' = requested + cur_topic_count
    /\ sec_questions' = sec_questions \o cell_questions(k, FALSE)
    /\ last_cell' = [n |-> cur_topic_count, multimodal |-> "none", multimodal_got |-> 0,
                     text |-> TRUE, text_n |-> cur_topic_count, text_got |-> k]
    /\ band_idx' = next_band_idx /\ topic_idx' = next_topic_idx
    /\ UNCHANGED <<section, diagram_pairs, sec_pc>>
    /\ UNCHANGED <<genVars, paperVars, pureVars>>

\* mutation: an error of text-only generation is swallowed and the cell is
\* left empty
CellFallbackRaises_swallowed ==
    /\ in_cell /\ cur_topic_count # 0 /\ has_pairs
    /\ note_allocation
    /\ requested' = requested + cur_topic_count
    /\ last_cell' = [n |-> cur_topic_count, multimodal |-> "raised", multimodal_got |-> 0,
                     text |-> TRUE, text_n |-> cur_topic_count, text_got |-> 0]
    /\ band_idx' = next_band_idx /\ topic_idx' = next_topic_idx
    /\ UNCHANGED <<section, diagram_pairs, sec_questions, sec_pc>>
    /\ UNCHANGED <<genVars, paperVars, pureVars>>

\* text-only generation raises: the error leaves _build_section
CellTextRaises ==
    /\ in_cell /\ cur_topic_count # 0 /\ ~has_pairs
    /\ note_allocation
    /\ requested' = requested + cur_topic_count
    /\ last_cell' = [n |-> cur_topic_count, multimodal |-> "none", multimodal_got |-> 0,
                     text |-> TRUE, text_n |-> cur_topic_count, text_got |-> 0]
    /\ sec_pc' = "raised"
    /\ UNCHANGED <<section, diagram_pairs, band_idx, topic_idx, sec_questions>>
    /\ UNCHANGED <<genVars, paperVars, pureVars>>

\* generate_from_pair returns k questions, 0 <= k <= n: it returns the list
\* it has after the loop, also when that list is empty (lines 296-310 of
\* paper_builder.py, lines 169-176 of multimodal_generator.py)
CellMultimodal(k) ==
    /\ in_cell /\ cur_topic_count # 0 /\ has_pairs
    /\ k \in 0..cur_topic_count
    /\ note_allocation
    /\ requested' = requested + cur_topic_count
    /\ sec_questions' = sec_questions \o cell_questions(k, TRUE)
    /\ last_cell' = [n |-> cur_topic_count, multimodal |-> "returned", multimodal_got |-> k,
                     text |-> FALSE, text_n |-> 0, text_got |-> 0]
    /\ band_idx' = next_band_idx /\ topic_idx' = next_topic_idx
    /\ UNCHANGED <<section, diagram_pairs, sec_pc>>
    /\ UNCHANGED <<genVars, paperVars, pureVars>>

\* generate_from_pair raises (outside its loop's try: lines 82-88), the
\* except branch runs text-only generation, which returns k questions
CellFallbackText(k) ==
    /\ in_cell /\ cur_topic_count # 0 /\ has_pairs
    /\ k \in 1..cur_topic_count
    /\ note_allocation
    /\ requested' = requested + cur_topic_count
    /\ sec_questions' = sec_questions \o cell_questions(k, FALSE)
    /\ last_cell' = [n |-> cur_topic_count, multimodal |-> "raised", multimodal_got |-> 0,
                     text |-> TRUE, text_n |-> cur_topic_count, text_got |-> k]
    /\ band_idx' = next_band_idx /\ topic_idx' = next_topic_idx
    /\ UNCHANGED <<section, diagram_pairs, sec_pc>>
    /\ UNCHANGED <<genVars, paperVars, pureVars>>

\* generate_from_pair raises and the text-only fallback raises too
CellFallbackRaises ==
    /\ in_cell /\ cur_topic_count # 0 /\ has_pairs
    /\ note_allocation
    /\ requested' = requested + cur_topic_count
    /\ last_cell' = [n |-> cur_topic_count, multimodal |-> "raised", multimodal_got |-> 0,
                     text |-> TRUE, text_n |-> cur_topic_count, text_got |-> 0]
    /\ sec_pc' = "raised"
    /\ UNCHANGED <<section, diagram_pairs, band_idx, topic_idx, sec_questions>>
    /\ UNCHANGED <<genVars, paperVars, pureVars>>

\* return questions (line 343)
SectionReturn ==
    /\ sec_pc = "run" /\ band_idx > Len(section.difficulty_distribution)
    /\ sec_pc' = "returned"
    /\ UNCHANGED <<section, diagram_pairs, band_idx, topic_idx, sec_questions, requested,
                   allocations, last_cell>>
    /\ UNCHANGED <<genVars, paperVars, pureVars>>

SectionNext ==
    \/ SkipZeroBand
    \/ BandBadLabel
    \/ SkipBandNoTopics
    \/ SkipZeroCell
    \/ \E k \in 1..MaxCount : CellText(k)
    \/ CellTextRaises
    \/ \E k \in 0..MaxCount : CellMultimodal(k)
    \/ \E k \in 1..MaxCount : CellFallbackText(k)
    \/ CellFallbackRaises
    \/ SectionReturn


(***************************************************************************)
(* What one _build_section call can produce, as a function of the section  *)
(* and of whether diagram pairs were supplied.                             *)
(***************************************************************************)
RECURSIVE SumSeq(_)
SumSeq(seq) == IF seq = <<>> THEN 0 ELSE Head(seq) + SumSeq(Tail(seq))

Min(a, b) == IF a < b THEN a ELSE b

\* bands whose cells are generated: count # 0 and topics configured
live_band(sec, b) ==
    sec.difficulty_distribution[b].count # 0 /\ Len(sec.topics) > 0

\* a band with a count # 0 whose label is no difficulty raises KeyError
section_has_bad_label(sec) ==
    \E b \in DOMAIN sec.difficulty_distribution :
        /\ sec.difficulty_distribution[b].count # 0
        /\ ~label_is_difficulty(sec.difficulty_distribution[b].label)

\* sum of the n of all cells
section_target(sec) ==
    SumSeq([b \in DOMAIN sec.difficulty_distribution |->
               IF live_band(sec, b) THEN sec.difficulty_distribution[b].count ELSE 0])

\* number of cells with topic_count # 0
section_cells(sec) ==
    SumSeq([b \in DOMAIN sec.difficulty_distribution |->
               IF live_band(sec, b)
               THEN Min(sec.difficulty_distribution[b].count, Len(sec.topics)) ELSE 0])

\* lo..hi questions when it returns; text-only cells return at least one
section_summary(sec, pairs) ==
    [ name       |-> sec.name,
      must_raise |-> section_has_bad_label(sec),
      can_raise  |-> section_cells(sec) > 0,
      lo         |-> IF pairs = "pairs" THEN 0 ELSE section_cells(sec),
      hi         |-> section_target(sec) ]

(***************************************************************************)
(* Question Bank and Paper Assembler (QuestionBank, PaperBuilder).         *)
(*   file               the state file: absent, or the JSON list written   *)
(*   used_question_ids  QuestionBank.used_question_ids                     *)
(*   all_questions      QuestionBank.all_questions                         *)
(*   pb_pc              "building" inside build_paper, "raised" when the   *)
(*                      latest build_paper call ended with an error, else  *)
(*                      "idle"                                             *)
(*   pb_pairs           build_paper's diagram_pairs argument               *)
(*   paper_questions    build_paper's local all_questions                  *)
(*   sections_done      sections of the configuration already built        *)
(*   paper              the Paper just returned, or NoPaper once the next  *)
(*                      operation has started                              *)
(*   ever_built         identifiers of all questions of the papers built   *)
(*                      since the last clear                               *)
(*   last_add           the list of the latest direct add_questions call   *)
(*                      and how often it was repeated, when no other bank  *)
(*                      operation followed                                 *)
(*   loads              consecutive loads of the state file (capped)       *)
(*   reused             identifiers of the latest paper that the bank held *)
(*                      before the build                                   *)
(***************************************************************************)

\* question identifiers: uuid4 strings, so two questions can share one
Ids == {"X", "Y"}

Range(seq) == {seq[i] : i \in DOMAIN seq}

Count(seq, x) == Cardinality({i \in DOMAIN seq : seq[i] = x})

ids_of(qs) == [i \in DOMAIN qs |-> qs[i].question_id]

\* list(set): the elements once each, in an order the program does not fix
Orderings(S) == { o \in [1..Cardinality(S) -> S] : Range(o) = S }

NoFile == [exists |-> FALSE, ids |-> <<>>]

NoPaper == [built |-> FALSE, questions |-> <<>>, errors |-> <<>>]

NoAdd == [batch |-> <<>>, times |-> 0]

\* section names of the papers: a plain one and one of white space only
PaperSectionNames == {<<"S">>, <<" ">>}

\* a question as the bank and the paper see it: its identifier and the
\* section name stamped on it
PaperQuestion(id, name) == [question_id |-> id, test_section |-> name]

Batches ==
    UNION { SeqsOfLen({PaperQuestion(id, <<"S">>) : id \in Ids}, k) : k \in 0..MaxBatch }

\* a question as generate_mcqs accepted it, before the section name is stamped
accepted_question ==
    candidate(R_good, [test_section |-> NoneArg, main_topic |-> <<"m">>,
                       subtopic |-> <<"u">>, difficulty |-> "Easy"])

\* q.validate() of a question of the paper
paper_question_errors(pq) ==
    validate([accepted_question EXCEPT !.test_section = pq.test_section])

\* _load_state (lines 85-90): the set of the identifiers in the file
load_state(f) == IF f.exists THEN Range(f.ids) ELSE {}

\* mutation: every question is recorded, used or not
RECURSIVE add_loop_no_check(_, _, _)
add_loop_no_check(used, all, qs) ==
    IF qs = <<>> THEN [used |-> used, all |-> all]
    ELSE add_loop_no_check(used \cup {Head(qs).question_id}, Append(all, Head(qs)),
                           Tail(qs))

\* mutation: the identifiers are put into the set after the loop
add_loop_late_set(used, all, qs) ==
    [used |-> used \cup Range(ids_of(qs)),
     all  |-> all \o SelectSeq(qs, LAMBDA q : q.question_id \notin used)]

\* the for loop of add_questions (lines 101-104)
RECURSIVE add_loop(_, _, _)
add_loop(used, all, qs) ==
    IF qs = <<>> THEN [used |-> used, all |-> all]
    ELSE IF Head(qs).question_id \notin used
         THEN add_loop(used \cup {Head(qs).question_id}, Append(all, Head(qs)), Tail(qs))
         ELSE add_loop(used, all, Tail(qs))

\* mutation: the file is never rewritten
save_state_skipped(used) == file' = file

\* _save_state (lines 92-97): one full rewrite with list(used_question_ids)
save_state(used) ==
    \E o \in Orderings(used) : file' = [exists |-> TRUE, ids |-> o]

\* add_questions (lines 99-106)
add_questions(qs) ==
    LET r == add_loop(used_question_ids, all_questions, qs) IN
    /\ used_question_ids' = r.used
    /\ all_questions' = r.all
    /\ save_state(r.used)

\* Paper.validate (lines 39-58), the paper-level checks
RECURSIVE question_violations(_, _)
question_violations(qs, i) ==
    IF i > Len(qs) THEN <<>>
    ELSE (IF paper_question_errors(qs[i]) # <<>> THEN <<"question_invalid">> ELSE <<>>)
         \o question_violations(qs, i + 1)

paper_validate(qs) ==
       (IF Len(qs) = 0 THEN <<"no_questions">> ELSE <<>>)
    \o (IF Len(qs) # Cardinality(Range(ids_of(qs))) THEN <<"duplicate_ids">> ELSE <<>>)
    \o question_violations(qs, 1)

PaperInit ==
    /\ file = NoFile
    /\ used_question_ids = {}
    /\ all_questions = <<>>
    /\ pb_pc = "idle"
    /\ pb_pairs = "none"
    /\ paper_questions = <<>>
    /\ sections_done = 0
    /\ paper = NoPaper
    /\ ever_built = {}
    /\ last_add = NoAdd
    /\ loads = 0
    /\ reused = {}

\* QuestionBank.__init__ (lines 79-83): a process start
NewBank ==
    /\ pb_pc # "building"
    /\ pb_pc' = "idle"
    /\ used_question_ids' = load_state(file)
    /\ all_questions' = <<>>
    /\ last_add' = NoAdd
    /\ loads' = Min(loads + 1, 2)
    /\ paper' = NoPaper /\ reused' = {}
    /\ UNCHANGED <<file, pb_pairs, paper_questions, sections_done, ever_built>>
    /\ UNCHANGED <<genVars, secVars, pureVars>>

\* a direct call of add_questions
AddQuestions(qs) ==
    /\ pb_pc # "building"
    /\ pb_pc' = "idle"
    /\ add_questions(qs)
    /\ last_add' = IF last_add.times > 0 /\ last_add.batch = qs
                   THEN [batch |-> qs, times |-> 2]
                   ELSE [batch |-> qs, times |-> 1]
    /\ loads' = 0
    /\ paper' = NoPaper /\ reused' = {}
    /\ UNCHANGED <<pb_pairs, paper_questions, sections_done, ever_built>>
    /\ UNCHANGED <<genVars, secVars, pureVars>>

\* mutation: clear empties the bank in memory and leaves the file as it is
Clear_no_save ==
    /\ pb_pc # "building"
    /\ pb_pc' = "idle"
    /\ used_question_ids' = {}
    /\ all_questions' = <<>>
    /\ file' = file
    /\ ever_built' = {}
    /\ last_add' = NoAdd
    /\ loads' = 0
    /\ paper' = NoPaper /\ reused' = {}
    /\ UNCHANGED <<pb_pairs, paper_questions, sections_done>>
    /\ UNCHANGED <<genVars, secVars, pureVars>>

\* clear (lines 112-116)
Clear ==
    /\ pb_pc # "building"
    /\ pb_pc' = "idle"
    /\ used_question_ids' = {}
    /\ all_questions' = <<>>
    /\ save_state({})
    /\ ever_built' = {}
    /\ last_add' = NoAdd
    /\ loads' = 0
    /\ paper' = NoPaper /\ reused' = {}
    /\ UNCHANGED <<pb_pairs, paper_questions, sections_done>>
    /\ UNCHANGED <<genVars, secVars, pureVars>>

\* build_paper is entered (line 198)
BuildStart(pairs) ==
    /\ pb_pc # "building"
    /\ pb_pc' = "building"
    /\ pb_pairs' = pairs
    /\ paper_questions' = <<>>
    /\ sections_done' = 0
    /\ paper' = NoPaper
    /\ reused' = {}
    /\ UNCHANGED <<file, used_question_ids, all_questions, ever_built, last_add, loads>>
    /\ UNCHANGED <<genVars, secVars, pureVars>>

PaperSectionConfigs == SectionConfigs(MaxPaperCount, MaxTopics, PaperSectionNames)

\* the sections whose outcomes stand for _build_section where its steps are
\* not modelled one by one
SummarySectionConfigs == SectionConfigs(MaxPaperCount, MaxTopics, {<<"S">>})

SummariesText == { section_summary(sec, "none") : sec \in SummarySectionConfigs }

SummariesPairs == { section_summary(sec, "pairs") : sec \in SummarySectionConfigs }

\* the outcomes of the sections a configuration can hold
SectionSummaries(pairs) == IF pairs = "pairs" THEN SummariesPairs ELSE SummariesText

\* one iteration of the loop over sections (lines 208-219), the section
\* returning k questions with the identifiers ids
BuildSectionReturns(sm, k, ids) ==
    /\ pb_pc = "building" /\ sections_done < MaxSections
    /\ ~sm.must_raise
    /\ k \in sm.lo..sm.hi
    /\ Len(paper_questions) + k <= MaxPaperLen
    /\ Len(ids) = k
    /\ paper_questions' = paper_questions \o
           [i \in 1..k |-> PaperQuestion(ids[i], sm.name)]
    /\ sections_done' = sections_done + 1
    /\ UNCHANGED <<file, used_question_ids, all_questions, pb_pc, pb_pairs, paper,
                   ever_built, last_add, loads, reused>>
    /\ UNCHANGED <<genVars, secVars, pureVars>>

\* _build_section raises: the error leaves build_paper, no paper is returned
BuildSectionRaises(sm) ==
    /\ pb_pc = "building" /\ sections_done < MaxSections
    /\ sm.must_raise \/ sm.can_raise
    /\ pb_pc' = "raised"
    /\ paper_questions' = <<>>
    /\ sections_done' = 0
    /\ pb_pairs' = "none"
    /\ UNCHANGED <<file, used_question_ids, all_questions, paper, ever_built, last_add,
                   loads, reused>>
    /\ UNCHANGED <<genVars, secVars, pureVars>>

\* mutation: only questions the bank does not hold are put into the paper
BuildFinish_filtering ==
    /\ pb_pc = "building" /\ sec_pc = "idle"
    /\ paper' = [built |-> TRUE,
                 questions |-> SelectSeq(paper_questions,
                                  LAMBDA q : q.question_id \notin used_question_ids),
                 errors |-> paper_validate(paper_questions)]
    /\ add_questions(paper_questions)
    /\ ever_built' = ever_built \cup Range(ids_of(paper_questions))
    /\ reused' = Range(ids_of(paper_questions)) \cap used_question_ids
    /\ last_add' = NoAdd
    /\ loads' = 0
    /\ pb_pc' = "idle"
    /\ paper_questions' = <<>>
    /\ sections_done' = 0
    /\ pb_pairs' = "none"
    /\ UNCHANGED <<genVars, secVars, pureVars>>

\* mutation: a paper with validation errors is rejected, nothing is registered
BuildFinish_strict ==
    /\ pb_pc = "building" /\ sec_pc = "idle"
    /\ IF paper_validate(paper_questions) = <<>>
       THEN /\ paper' = [built |-> TRUE, questions |-> paper_questions, errors |-> <<>>]
            /\ add_questions(paper_questions)
            /\ ever_built' = ever_built \cup Range(ids_of(paper_questions))
            /\ pb_pc' = "idle"
       ELSE /\ UNCHANGED <<paper, file, used_question_ids, all_questions, ever_built>>
            /\ pb_pc' = "raised"
    /\ reused' = Range(ids_of(paper_questions)) \cap used_question_ids
    /\ last_add' = NoAdd
    /\ loads' = 0
    /\ paper_questions' = <<>>
    /\ sections_done' = 0
    /\ pb_pairs' = "none"
    /\ UNCHANGED <<genVars, secVars, pureVars>>

\* the sections are done (lines 223-251): the Paper is created, validated
\* (advisory), its questions are added to the bank, and it is returned
BuildFinish ==
    /\ pb_pc = "building" /\ sec_pc = "idle"
    /\ paper' = [built |-> TRUE, questions |-> paper_questions,
                 errors |-> paper_validate(paper_questions)]
    /\ add_questions(paper_questions)
    /\ ever_built' = ever_built \cup Range(ids_of(paper_questions))
    /\ reused' = Range(ids_of(paper_questions)) \cap used_question_ids
    /\ last_add' = NoAdd
    /\ loads' = 0
    /\ pb_pc' = "idle"
    /\ paper_questions' = <<>>
    /\ sections_done' = 0
    /\ pb_pairs' = "none"
    /\ UNCHANGED <<genVars, secVars, pureVars>>

PaperNext ==
    \/ NewBank
    \/ \E qs \in Batches : AddQuestions(qs)
    \/ Clear
    \/ \E pairs \in {"none", "pairs"} : BuildStart(pairs)
    \/ \E sm \in SectionSummaries(pb_pairs) :
           \E k \in 0..MaxPaperLen : \E ids \in SeqsOfLen(Ids, k) :
               BuildSectionReturns(sm, k, ids)
    \/ \E sm \in SectionSummaries(pb_pairs) : BuildSectionRaises(sm)
    \/ BuildFinish

(***************************************************************************)
(* build_paper with the Section Builder run inside it (lines 208-219):     *)
(* each iteration calls _build_section, whose steps are the section        *)
(* actions above, and extends all_questions with what it returns; an       *)
(* error of _build_section is not caught.                                  *)
(***************************************************************************)
\* section_questions = self._build_section(section, subject, diagram_pairs)
SectionCall(sec) ==
    /\ pb_pc = "building" /\ sec_pc = "idle" /\ sections_done < MaxSections
    /\ Len(paper_questions) + section_target(sec) <= MaxPaperLen
    /\ section' = sec
    /\ diagram_pairs' = pb_pairs
    /\ band_idx' = 1
    /\ topic_idx' = 1
    /\ sec_questions' = <<>>
    /\ requested' = 0
    /\ allocations' = NoAllocations
    /\ last_cell' = NoCell
    /\ sec_pc' = "run"
    /\ UNCHANGED <<genVars, paperVars, pureVars>>

\* the section's locals are gone once the call has ended; last_cell is kept
\* to tell what the latest cell did
section_call_ended ==
    /\ section' = PaperSection(<<>>, 0, <<>>, <<>>)
    /\ diagram_pairs' = "none" /\ band_idx' = 1 /\ topic_idx' = 1
    /\ sec_questions' = <<>> /\ requested' = 0 /\ allocations' = NoAllocations
    /\ sec_pc' = "idle"
    /\ UNCHANGED last_cell

\* mutation: each section's questions are registered in the bank as soon as
\* the section is built
SectionDone_registers(ids) ==
    /\ pb_pc = "building" /\ sec_pc = "returned"
    /\ Len(ids) = Len(sec_questions)
    /\ paper_questions' = paper_questions \o
           [i \in DOMAIN sec_questions |->
               PaperQuestion(ids[i], sec_questions[i].test_section)]
    /\ add_questions([i \in DOMAIN sec_questions |->
                         PaperQuestion(ids[i], sec_questions[i].test_section)])
    /\ sections_done' = sections_done + 1
    /\ section_call_ended
    /\ UNCHANGED <<pb_pc, pb_pairs, paper, ever_built, last_add, loads, reused>>
    /\ UNCHANGED <<genVars, pureVars>>

\* all_questions.extend(section_questions); the questions carry the
\* identifiers ids
SectionDone(ids) ==
    /\ pb_pc = "building" /\ sec_pc = "returned"
    /\ Len(ids) = Len(sec_questions)
    /\ paper_questions' = paper_questions \o
           [i \in DOMAIN sec_questions |->
               PaperQuestion(ids[i], sec_questions[i].test_section)]
    /\ sections_done' = sections_done + 1
    /\ section_call_ended
    /\ UNCHANGED <<file, used_question_ids, all_questions, pb_pc, pb_pairs, paper,
                   ever_built, last_add, loads, reused>>
    /\ UNCHANGED <<genVars, pureVars>>

\* _build_section raised: build_paper has no handler, the error leaves it
SectionFailed ==
    /\ pb_pc = "building" /\ sec_pc = "raised"
    /\ pb_pc' = "raised"
    /\ paper_questions' = <<>>
    /\ sections_done' = 0
    /\ pb_pairs' = "none"
    /\ section_call_ended
    /\ UNCHANGED <<file, used_question_ids, all_questions, paper, ever_built, last_add,
                   loads, reused>>
    /\ UNCHANGED <<genVars, pureVars>>

\* a bank as QuestionBank() constructs it: no state file, or the file a
\* previous process left
BuildInit ==
    /\ file \in {NoFile, [exists |-> TRUE, ids |-> <<"X">>]}
    /\ used_question_ids = load_state(file)
    /\ all_questions = <<>>
    /\ pb_pc = "idle"
    /\ pb_pairs = "none"
    /\ paper_questions = <<>>
    /\ sections_done = 0
    /\ paper = NoPaper
    /\ ever_built = {}
    /\ last_add = NoAdd
    /\ loads = 0
    /\ reused = {}

\* the one build_paper call of a behaviour
BuildCall(pairs) ==
    /\ pb_pc = "idle" /\ ~paper.built
    /\ BuildStart(pairs)

BuildNext ==
    \/ \E pairs \in {"none", "pairs"} : BuildCall(pairs)
    \/ \E sec \in PaperSectionConfigs : SectionCall(sec)
    \/ SectionNext
    \/ \E k \in 0..MaxPaperLen : \E ids \in SeqsOfLen(Ids, k) : SectionDone(ids)
    \/ SectionFailed
    \/ BuildFinish

(***************************************************************************)
(* Direct calls of Question.validate on Question objects built by hand     *)
(* (the dataclass constructor checks nothing).                             *)
(*   val_q    the Question                                                 *)
(*   val_out  whether validate was called, and the list it returned        *)
(***************************************************************************)
NotCalled == [called |-> FALSE, errors |-> <<>>]

QuestionInputs ==
    [ test_section     : {<<"s">>, <<" ">>},
      main_topic       : {<<"m">>, <<>>},
      subtopic         : {<<"u">>},
      difficulty       : {"Medium"},
      question_text_en : {<<"q">>, <<" ">>},
      option_a_en      : {<<"a", "a">>, <<>>, <<" ">>},
      option_b_en      : {<<"b", "b">>, <<"A", "A", " ">>},
      option_c_en      : {<<"c", "c">>, <<>>},
      option_d_en      : {<<"d", "d">>, <<"c", "c">>},
      correct_answer   : {<<"A">>, <<"E">>, <<"b">>},
      explanation      : {<<>>, <<" ">>, Rep("x", BaseMinExplanation - 1) \o <<" ">>,
                          Rep("x", BaseMinExplanation),
                          <<" ">> \o Rep("x", BaseMinExplanation)},
      references       : {<<>>, << <<"r">> >>} ]

ValidateInit ==
    /\ val_q \in QuestionInputs
    /\ val_out = NotCalled

ValidateIdle ==
    /\ val_q = accepted_question
    /\ val_out = NotCalled

\* errors = q.validate()
ValidateCall ==
    /\ ~val_out.called
    /\ val_out' = [called |-> TRUE, errors |-> validate(val_q)]
    /\ UNCHANGED val_q
    /\ UNCHANGED <<genVars, secVars, paperVars, parseVars, batchVars, clientVars, raceVars>>

ValidateNext == ValidateCall

(***************************************************************************)
(* Response Parser (MCQGenerator._parse_llm_response, _clean_json).        *)
(* Text is a sequence of characters; "1" is a digit, "p" a letter, DQ the  *)
(* double quote.  JSON values are records: [t |-> "num"], [t |-> "str"],   *)
(* [t |-> "list", items], [t |-> "dict", members] (members in key order).  *)
(*   parse_src   the array, the prose around it and whether a trailing     *)
(*               comma was inserted, when the text was built that way      *)
(*   parse_text  response_text                                             *)
(*   parse_out   whether the parser was called, whether it raised          *)
(*               ValueError, and the list it returned                      *)
(***************************************************************************)
DQ == "\""

JNum == [t |-> "num"]
JText(chars) == [t |-> "str", s |-> chars]
JArr(items) == [t |-> "list", items |-> items]
JObj(members) == [t |-> "dict", members |-> members]

Fail == [ok |-> FALSE, v |-> JNum, i |-> 0]

first_index(s, chars) ==
    IF \E i \in DOMAIN s : s[i] \in chars
    THEN CHOOSE i \in DOMAIN s : s[i] \in chars /\ \A j \in 1..(i - 1) : s[j] \notin chars
    ELSE 0

last_index(s, chars) ==
    IF \E i \in DOMAIN s : s[i] \in chars
    THEN CHOOSE i \in DOMAIN s : s[i] \in chars /\ \A j \in (i + 1)..Len(s) : s[j] \notin chars
    ELSE 0

\* re.search(open + '.*' + close, text, re.DOTALL): greedy, from the first
\* opening character to the last closing character after it; <<>> is no match
re_search_greedy(text, open, close) ==
    LET a == first_index(text, {open})
        b == last_index(text, {close})
    IN IF a # 0 /\ b > a THEN SubSeq(text, a, b) ELSE <<>>

RECURSIVE skip_ws(_, _)
skip_ws(s, i) ==
    IF i <= Len(s) /\ s[i] \in Whitespace THEN skip_ws(s, i + 1) ELSE i

RECURSIVE skip_digits(_, _)
skip_digits(s, i) == IF i <= Len(s) /\ s[i] = "1" THEN skip_digits(s, i + 1) ELSE i

\* position of the closing quote of the string opened before i, or 0
closing_quote(s, i) ==
    IF \E k \in i..Len(s) : s[k] = DQ
    THEN CHOOSE k \in i..Len(s) : s[k] = DQ /\ \A j \in i..(k - 1) : s[j] # DQ
    ELSE 0

\* json.loads, by recursive descent: a value starting at or after i
RECURSIVE parse_value(_, _)
RECURSIVE parse_items(_, _, _)
RECURSIVE parse_members(_, _, _)
parse_value(s, i) ==
    LET j == skip_ws(s, i) IN
    IF j > Len(s) THEN Fail
    ELSE IF s[j] = "1" THEN [ok |-> TRUE, v |-> JNum, i |-> skip_digits(s, j)]
    ELSE IF s[j] = DQ
         THEN LET k == closing_quote(s, j + 1) IN
              IF k = 0 THEN Fail
              ELSE [ok |-> TRUE, v |-> JText(SubSeq(s, j + 1, k - 1)), i |-> k + 1]
    ELSE IF s[j] = "["
         THEN LET k == skip_ws(s, j + 1) IN
              IF k <= Len(s) /\ s[k] = "]"
              THEN [ok |-> TRUE, v |-> JArr(<<>>), i |-> k + 1]
              ELSE parse_items(s, k, <<>>)
    ELSE IF s[j] = "{"
         THEN LET k == skip_ws(s, j + 1) IN
              IF k <= Len(s) /\ s[k] = "}"
              THEN [ok |-> TRUE, v |-> JObj(<<>>), i |-> k + 1]
              ELSE parse_members(s, k, <<>>)
    ELSE Fail

\* the items of an array after its "[", one value then "," or "]"
parse_items(s, i, acc) ==
    LET r == parse_value(s, i) IN
    IF ~r.ok THEN Fail
    ELSE LET k == skip_ws(s, r.i) IN
         IF k > Len(s) THEN Fail
         ELSE IF s[k] = "," THEN parse_items(s, k + 1, Append(acc, r.v))
         ELSE IF s[k] = "]" THEN [ok |-> TRUE, v |-> JArr(Append(acc, r.v)), i |-> k + 1]
         ELSE Fail

\* the members of an object after its "{": string ":" value then "," or "}"
parse_members(s, i, acc) ==
    LET j == skip_ws(s, i) IN
    IF j > Len(s) \/ s[j] # DQ THEN Fail
    ELSE LET key == parse_value(s, j) IN
         IF ~key.ok THEN Fail
         ELSE LET c == skip_ws(s, key.i) IN
              IF c > Len(s) \/ s[c] # ":" THEN Fail
              ELSE LET r == parse_value(s, c + 1) IN
                   IF ~r.ok THEN Fail
                   ELSE LET k == skip_ws(s, r.i) IN
                        IF k > Len(s) THEN Fail
                        ELSE IF s[k] = ","
                             THEN parse_members(s, k + 1, Append(acc, <<key.v.s, r.v>>))
                        ELSE IF s[k] = "}"
                             THEN [ok |-> TRUE,
                                   v |-> JObj(Append(acc, <<key.v.s, r.v>>)), i |-> k + 1]
                        ELSE Fail

\* json.loads(json_str): one value, nothing but white space after it
json_loads(s) ==
    LET r == parse_value(s, 1) IN
    IF r.ok /\ skip_ws(s, r.i) > Len(s) THEN r ELSE Fail

\* _clean_json: re.sub(r',(\s*[\]}])', r'\1', json_str) drops every comma
\* that white space and then "]" or "}" follow
clean_json(s) ==
    LET dropped(i) == /\ s[i] = ","
                      /\ skip_ws(s, i + 1) <= Len(s)
                      /\ s[skip_ws(s, i + 1)] \in {"]", "}"}
        keep == {i \in DOMAIN s : ~dropped(i)}
        RECURSIVE pick(_)
        pick(i) == IF i > Len(s) THEN <<>>
                   ELSE (IF i \in keep THEN <<s[i]>> ELSE <<>>) \o pick(i + 1)
    IN pick(1)

ParseRaised == [called |-> TRUE, raised |-> TRUE, data |-> <<>>]

ParseNotCalled == [called |-> FALSE, raised |-> FALSE, data |-> <<>>]

\* _parse_llm_response
parse_llm_response(response_text) ==
    LET arr == re_search_greedy(response_text, "[", "]")
        obj == re_search_greedy(response_text, "{", "}")
        json_str == IF arr # <<>> THEN arr ELSE <<"[">> \o obj \o <<"]">>
        first == json_loads(json_str)
        second == json_loads(clean_json(json_str))
        decoded == IF first.ok THEN first ELSE second
    IN IF arr = <<>> /\ obj = <<>> THEN ParseRaised
       ELSE IF ~decoded.ok THEN ParseRaised
       ELSE IF decoded.v.t = "dict"
            THEN [called |-> TRUE, raised |-> FALSE, data |-> <<decoded.v>>]
       ELSE IF decoded.v.t = "list"
            THEN [called |-> TRUE, raised |-> FALSE, data |-> decoded.v.items]
       ELSE ParseRaised

\* a JSON text of a value, as json.dumps writes it (", " and ": ")
RECURSIVE render(_)
RECURSIVE render_items(_, _)
RECURSIVE render_members(_, _)
render(v) ==
    CASE v.t = "num"  -> <<"1">>
      [] v.t = "str"  -> <<DQ>> \o v.s \o <<DQ>>
      [] v.t = "list" -> <<"[">> \o render_items(v.items, 1) \o <<"]">>
      [] v.t = "dict" -> <<"{">> \o render_members(v.members, 1) \o <<"}">>

render_items(items, i) ==
    IF i > Len(items) THEN <<>>
    ELSE render(items[i]) \o (IF i < Len(items) THEN <<",", " ">> ELSE <<>>)
         \o render_items(items, i + 1)

render_members(members, i) ==
    IF i > Len(members) THEN <<>>
    ELSE <<DQ>> \o members[i][1] \o <<DQ, ":", " ">> \o render(members[i][2])
         \o (IF i < Len(members) THEN <<",", " ">> ELSE <<>>)
         \o render_members(members, i + 1)

\* the text of an array with one trailing comma before its closing "]"
with_trailing_comma(text) == SubSeq(text, 1, Len(text) - 1) \o <<",", "]">>

\* objects of a response: a number, a string, a nested list, no members, and
\* a string that holds a comma followed by a closing bracket
ParseObjects ==
    { JObj(<< <<<<"k">>, JNum>> >>),
      JObj(<< <<<<"k">>, JText(<<"p">>)>>, <<<<"j">>, JNum>> >>),
      JObj(<< <<<<"k">>, JArr(<<JNum, JNum>>)>> >>),
      JObj(<<>>),
      JObj(<< <<<<"k">>, JText(<<"p", ",", "]">>)>> >>) }

ParseArrays == UNION { SeqsOfLen(ParseObjects, k) : k \in 0..MaxArrayLen }

ProseBefore ==
    { <<>>, <<"p", " ">>, <<"p", "{", "p", "}", " ">>, <<"[", "1", "]", " ">>,
      <<"p", "]", " ">> }

ProseAfter ==
    { <<>>, <<" ", "p">>, <<" ", "{", "}">>, <<" ", "[", "p">>, <<" ", "p", "]">> }

ParseSource(kind, before, array, after, comma) ==
    [kind |-> kind, before |-> before, array |-> array, after |-> after, comma |-> comma]

NoSource == ParseSource("none", <<>>, <<>>, <<>>, FALSE)

RawSource == ParseSource("raw", <<>>, <<>>, <<>>, FALSE)

EmbeddedSources ==
    { ParseSource("embedded", b, arr, a, c) :
        b \in ProseBefore, arr \in ParseArrays, a \in ProseAfter, c \in BOOLEAN }

embed(src) ==
    src.before
    \o (IF src.comma THEN with_trailing_comma(render(JArr(src.array)))
        ELSE render(JArr(src.array)))
    \o src.after

\* a response holding one object that no array encloses
ObjectSources ==
    { ParseSource("object", b, <<obj>>, a, FALSE) :
        b \in ProseBefore, obj \in ParseObjects, a \in ProseAfter }

embed_object(src) == src.before \o render(src.array[1]) \o src.after

\* short texts over the structural characters
RawTexts ==
    UNION { SeqsOfLen({"[", "]", "{", "}", ",", "1"}, k) : k \in 0..MaxTextLen }

ParseInit ==
    /\ \/ parse_src \in EmbeddedSources /\ parse_text = embed(parse_src)
       \/ parse_src \in ObjectSources /\ parse_text = embed_object(parse_src)
       \/ parse_src = RawSource /\ parse_text \in RawTexts
    /\ parse_out = ParseNotCalled

ParseIdle ==
    /\ parse_src = NoSource
    /\ parse_text = <<>>
    /\ parse_out = ParseNotCalled

\* question_dicts = self._parse_llm_response(response_text)
ParseCall ==
    /\ ~parse_out.called
    /\ parse_out' = parse_llm_response(parse_text)
    /\ UNCHANGED <<parse_src, parse_text>>
    /\ UNCHANGED <<genVars, secVars, paperVars, valVars, batchVars, clientVars, raceVars>>

ParseNext == ParseCall

(***************************************************************************)
(* The for loop of generate_mcqs over the records of one parsed response   *)
(* (lines 111-141), entered with some questions already accepted.          *)
(*   batch_in   n, the questions accepted so far, the parsed response, the *)
(*              call's context and the generator's configuration           *)
(*   batch_out  whether the loop has run, and questions after it           *)
(***************************************************************************)
BatchRecords ==
    { R_good, R_expl_plus_one, R_missing_field, R_bad_answer, R_no_refs, R_not_a_dict }

BatchResponses == UNION { SeqsOfLen(BatchRecords, k) : k \in 0..MaxBatchResp }

BatchConfigs ==
    { GenerationConfig(DefaultMinExplanationLength, TRUE, DefaultMinReferences,
                       DefaultMaxValidationRetries),
      GenerationConfig(DefaultMinExplanationLength + 1, FALSE, DefaultMinReferences,
                       DefaultMaxValidationRetries) }

BatchContext ==
    [test_section |-> NoneArg, main_topic |-> <<"m">>, subtopic |-> <<"u">>,
     difficulty |-> "Easy"]

BatchNotRun == [done |-> FALSE, questions |-> <<>>]

BatchInit ==
    /\ \E target \in 1..MaxN : \E k \in 0..(target - 1) :
       \E resp \in BatchResponses : \E cfg \in BatchConfigs :
           batch_in = [n |-> target,
                       questions |-> [j \in 1..k |-> candidate(R_expl_plus_one, BatchContext)],
                       resp |-> resp, ctx |-> BatchContext, config |-> cfg]
    /\ batch_out = BatchNotRun

BatchIdle ==
    /\ batch_in = [n |-> 0, questions |-> <<>>, resp |-> <<>>, ctx |-> BatchContext,
                   config |-> GenerationConfig(0, FALSE, 0, 0)]
    /\ batch_out = BatchNotRun

\* for i, q_dict in enumerate(question_dicts, 1): ...
BatchRun ==
    /\ ~batch_out.done
    /\ batch_out' = [done |-> TRUE,
                     questions |-> process_records(batch_in.questions, batch_in.resp, 1,
                                                   batch_in.n, batch_in.ctx,
                                                   batch_in.config)]
    /\ UNCHANGED batch_in
    /\ UNCHANGED <<genVars, secVars, paperVars, valVars, parseVars, clientVars, raceVars>>

BatchNext == BatchRun

(***************************************************************************)
(* The raw model clients: LLMClient.generate (llm_client.py lines 67-82)   *)
(* and VLMClient.generate_multimodal (vlm_client.py lines 89-104), the     *)
(* same retry loop around one HTTP call.                                   *)
(*   cl_config    which client, max_retries, retry_delay_seconds           *)
(*   cl_attempt   the loop variable `attempt`                              *)
(*   cl_http      HTTP calls made (_call_llm / _call_vlm entered)          *)
(*   cl_waits     the time.sleep calls made, each with its duration        *)
(*   cl_failures  the errors caught, in order; the last one is last_error  *)
(*   cl_pc        "idle", "loop", "returned" or "raised"                   *)
(*   cl_result    the text returned or the LLMError raised                 *)
(***************************************************************************)
ClientKinds == {"llm", "vlm"}

\* what _call_llm / _call_vlm can raise: a failed request, a body that is
\* not JSON, a JSON body without a known key
CallErrors == {"http", "json", "format"}

ClientConfig(kind, retries, delay) ==
    [kind |-> kind, max_retries |-> retries, retry_delay_seconds |-> delay]

NoResult == [kind |-> "none", last_error |-> "none"]

last_error == IF cl_failures = <<>> THEN "None" ELSE cl_failures[Len(cl_failures)]

ClientInit ==
    /\ \E k \in ClientKinds : \E r \in 0..MaxRetries :
           cl_config = ClientConfig(k, r, DefaultRetryDelaySeconds)
    /\ cl_attempt = 0
    /\ cl_http = 0
    /\ cl_waits = <<>>
    /\ cl_failures = <<>>
    /\ cl_pc = "loop"
    /\ cl_result = NoResult

ClientIdle ==
    /\ cl_config = ClientConfig("llm", DefaultMaxRetries, DefaultRetryDelaySeconds)
    /\ cl_attempt = 0
    /\ cl_http = 0
    /\ cl_waits = <<>>
    /\ cl_failures = <<>>
    /\ cl_pc = "idle"
    /\ cl_result = NoResult

\* response = self._call_llm(payload); return response
CallSucceeds ==
    /\ cl_pc = "loop" /\ cl_attempt < cl_config.max_retries
    /\ cl_http' = cl_http + 1
    /\ cl_pc' = "returned"
    /\ cl_result' = [kind |-> "text", last_error |-> last_error]
    /\ UNCHANGED <<cl_config, cl_attempt, cl_waits, cl_failures>>
    /\ UNCHANGED <<genVars, secVars, paperVars, valVars, parseVars, batchVars, raceVars>>

\* mutation: the client sleeps after every failed call, the last one too
CallFails_always_sleeps(e) ==
    /\ cl_pc = "loop" /\ cl_attempt < cl_config.max_retries
    /\ cl_http' = cl_http + 1
    /\ cl_failures' = Append(cl_failures, e)
    /\ cl_waits' = Append(cl_waits, cl_config.retry_delay_seconds)
    /\ cl_attempt' = cl_attempt + 1
    /\ UNCHANGED <<cl_config, cl_pc, cl_result>>
    /\ UNCHANGED <<genVars, secVars, paperVars, valVars, parseVars, batchVars, raceVars>>

\* the call raises: except Exception as e (lines 74-81)
CallFails(e) ==
    /\ cl_pc = "loop" /\ cl_attempt < cl_config.max_retries
    /\ cl_http' = cl_http + 1
    /\ cl_failures' = Append(cl_failures, e)
    /\ cl_waits' = IF cl_attempt < cl_config.max_retries - 1
                   THEN Append(cl_waits, cl_config.retry_delay_seconds)
                   ELSE cl_waits
    /\ cl_attempt' = cl_attempt + 1
    /\ UNCHANGED <<cl_config, cl_pc, cl_result>>
    /\ UNCHANGED <<genVars, secVars, paperVars, valVars, parseVars, batchVars, raceVars>>

\* the for loop is over: raise LLMError(... {last_error}) (line 82)
RaiseLLMError ==
    /\ cl_pc = "loop" /\ cl_attempt >= cl_config.max_retries
    /\ cl_pc' = "raised"
    /\ cl_result' = [kind |-> "LLMError", last_error |-> last_error]
    /\ UNCHANGED <<cl_config, cl_attempt, cl_http, cl_waits, cl_failures>>
    /\ UNCHANGED <<genVars, secVars, paperVars, valVars, parseVars, batchVars, raceVars>>

ClientNext ==
    \/ CallSucceeds
    \/ \E e \in CallErrors : CallFails(e)
    \/ RaiseLLMError

(***************************************************************************)
(* Two QuestionBank instances (two processes, or two PaperBuilder() made   *)
(* without a shared bank) over the same state file.  Each instance loads   *)
(* the file in __init__ and later runs add_questions once: its loop works  *)
(* on the instance's own set and list, then _save_state rewrites the file. *)
(* The steps of the two instances interleave.                              *)
(*   race_file     the state file                                          *)
(*   race_used     used_question_ids of each instance                      *)
(*   race_all      all_questions of each instance                          *)
(*   race_batch    the questions each instance's build adds                *)
(*   race_pc       "new", "loaded", "looped" or "saved", per instance      *)
(*   race_hist     per instance the number of _save_state calls completed  *)
(*                 when it loaded, and the instances in the order of their *)
(*                 _save_state calls                                       *)
(***************************************************************************)
Banks == {1, 2}

RaceIds == {"X", "Y", "Z"}

RaceBatches ==
    UNION { SeqsOfLen({PaperQuestion(id, <<"S">>) : id \in RaceIds}, k) :
              k \in 0..MaxRaceBatch }

RaceInit ==
    /\ race_file \in {NoFile, [exists |-> TRUE, ids |-> <<>>],
                      [exists |-> TRUE, ids |-> <<"Z">>]}
    /\ race_used = [b \in Banks |-> {}]
    /\ race_all = [b \in Banks |-> <<>>]
    /\ race_batch \in [Banks -> RaceBatches]
    /\ race_pc = [b \in Banks |-> "new"]
    /\ race_hist = [saves_at_load |-> [b \in Banks |-> 0], saves |-> <<>>]

RaceIdle ==
    /\ race_file = NoFile
    /\ race_used = [b \in Banks |-> {}]
    /\ race_all = [b \in Banks |-> <<>>]
    /\ race_batch = [b \in Banks |-> <<>>]
    /\ race_pc = [b \in Banks |-> "idle"]
    /\ race_hist = [saves_at_load |-> [b \in Banks |-> 0], saves |-> <<>>]

\* QuestionBank.__init__ (lines 79-83) with _load_state (lines 85-90)
RaceLoad(b) ==
    /\ race_pc[b] = "new"
    /\ race_used' = [race_used EXCEPT ![b] = load_state(race_file)]
    /\ race_all' = [race_all EXCEPT ![b] = <<>>]
    /\ race_pc' = [race_pc EXCEPT ![b] = "loaded"]
    /\ race_hist' = [race_hist EXCEPT !.saves_at_load[b] = Len(race_hist.saves)]
    /\ UNCHANGED <<race_file, race_batch>>
    /\ UNCHANGED <<genVars, secVars, paperVars, valVars, parseVars, batchVars, clientVars>>

\* the for loop of add_questions (lines 101-104)
RaceAddLoop(b) ==
    /\ race_pc[b] = "loaded"
    /\ LET r == add_loop(race_used[b], race_all[b], race_batch[b]) IN
           /\ race_used' = [race_used EXCEPT ![b] = r.used]
           /\ race_all' = [race_all EXCEPT ![b] = r.all]
    /\ race_pc' = [race_pc EXCEPT ![b] = "looped"]
    /\ UNCHANGED <<race_file, race_batch, race_hist>>
    /\ UNCHANGED <<genVars, secVars, paperVars, valVars, parseVars, batchVars, clientVars>>

\* mutation: _save_state reads the file again and writes the union
RaceSave_merging(b) ==
    /\ race_pc[b] = "looped"
    /\ \E o \in Orderings(race_used[b] \cup load_state(race_file)) :
           race_file' = [exists |-> TRUE, ids |-> o]
    /\ race_pc' = [race_pc EXCEPT ![b] = "saved"]
    /\ race_hist' = [race_hist EXCEPT !.saves = Append(@, b)]
    /\ UNCHANGED <<race_used, race_all, race_batch>>
    /\ UNCHANGED <<genVars, secVars, paperVars, valVars, parseVars, batchVars, clientVars>>

\* self._save_state() at the end of add_questions (line 106, lines 92-97):
\* the file is rewritten with this instance's set
RaceSave(b) ==
    /\ race_pc[b] = "looped"
    /\ \E o \in Orderings(race_used[b]) : race_file' = [exists |-> TRUE, ids |-> o]
    /\ race_pc' = [race_pc EXCEPT ![b] = "saved"]
    /\ race_hist' = [race_hist EXCEPT !.saves = Append(@, b)]
    /\ UNCHANGED <<race_used, race_all, race_batch>>
    /\ UNCHANGED <<genVars, secVars, paperVars, valVars, parseVars, batchVars, clientVars>>

RaceNext ==
    \/ \E b \in Banks : RaceLoad(b)
    \/ \E b \in Banks : RaceAddLoop(b)
    \/ \E b \in Banks : RaceSave(b)

(***************************************************************************)
(* Specifications: one per component, the other components at rest.        *)
(***************************************************************************)
GenIdle ==
    /\ n = 0 /\ config = GenerationConfig(0, FALSE, 0, 0)
    /\ ctx = [test_section |-> NoneArg, main_topic |-> <<>>, subtopic |-> <<>>,
              difficulty |-> "Medium"]
    /\ questions = <<>> /\ attempts = 0 /\ gen_pc = "idle" /\ calls = 0
    /\ last = [kind |-> "none", asked |-> 0, valid |-> 0]
    /\ every_unparseable = TRUE /\ every_good = TRUE

SectionIdle ==
    /\ section = PaperSection(<<>>, 0, <<>>, <<>>)
    /\ diagram_pairs = "none" /\ band_idx = 1 /\ topic_idx = 1
    /\ sec_questions = <<>> /\ requested = 0 /\ allocations = NoAllocations
    /\ last_cell = NoCell /\ sec_pc = "idle"

PaperIdle == PaperInit

InitGen ==
    GenInit /\ SectionIdle /\ PaperIdle /\ ValidateIdle /\ ParseIdle /\ BatchIdle
    /\ ClientIdle /\ RaceIdle

SpecGen == InitGen /\ [][GenNext]_vars

InitSection ==
    SectionInit /\ GenIdle /\ PaperIdle /\ ValidateIdle /\ ParseIdle /\ BatchIdle
    /\ ClientIdle /\ RaceIdle

SpecSection == InitSection /\ [][SectionNext]_vars

InitPaper ==
    PaperInit /\ GenIdle /\ SectionIdle /\ ValidateIdle /\ ParseIdle /\ BatchIdle
    /\ ClientIdle /\ RaceIdle

InitBuild ==
    BuildInit /\ GenIdle /\ SectionIdle /\ ValidateIdle /\ ParseIdle /\ BatchIdle
    /\ ClientIdle /\ RaceIdle

SpecBuild == InitBuild /\ [][BuildNext]_vars

InitValidate ==
    ValidateInit /\ GenIdle /\ SectionIdle /\ PaperIdle /\ ParseIdle /\ BatchIdle
    /\ ClientIdle /\ RaceIdle

SpecValidate == InitValidate /\ [][ValidateNext]_vars

InitParse ==
    ParseInit /\ GenIdle /\ SectionIdle /\ PaperIdle /\ ValidateIdle /\ BatchIdle
    /\ ClientIdle /\ RaceIdle

SpecParse == InitParse /\ [][ParseNext]_vars

InitBatch ==
    BatchInit /\ GenIdle /\ SectionIdle /\ PaperIdle /\ ValidateIdle /\ ParseIdle
    /\ ClientIdle /\ RaceIdle

SpecBatch == InitBatch /\ [][BatchNext]_vars

InitClient ==
    ClientInit /\ GenIdle /\ SectionIdle /\ PaperIdle /\ ValidateIdle /\ ParseIdle
    /\ BatchIdle /\ RaceIdle

SpecClient == InitClient /\ [][ClientNext]_vars

InitRace ==
    RaceInit /\ GenIdle /\ SectionIdle /\ PaperIdle /\ ValidateIdle /\ ParseIdle
    /\ BatchIdle /\ ClientIdle

SpecRace == InitRace /\ [][RaceNext]_vars

SpecPaper == InitPaper /\ [][PaperNext]_vars


(***************************************************************************)
(* The outcome summary used by the Paper Assembler agrees with the cell by *)
(* cell run of the Section Builder.                                        *)
(***************************************************************************)
SectionSummaryAgrees ==
    LET sm == section_summary(section, diagram_pairs) IN
    /\ sec_pc = "returned" =>
           (~sm.must_raise /\ Len(sec_questions) \in sm.lo..sm.hi
            /\ requested = section_target(section))
    /\ sec_pc = "raised" => (sm.must_raise \/ sm.can_raise)

(***************************************************************************)
(* Claims about the Section Builder (checked under SpecSection).           *)
(***************************************************************************)

\* C4: in a band with count C over T >= 1 topics, the first (C mod T) topics
\* get (C div T) + 1 and the others (C div T); a completed band's allocations
\* sum to C and differ pairwise by at most 1.
C4_Allocation ==
    allocations.band > 0 =>
        LET C == section.difficulty_distribution[allocations.band].count
            T == Len(section.topics)
            a == allocations.counts
        IN  /\ T >= 1
            /\ \A i \in DOMAIN a :
                   a[i] = IF i <= C % T THEN (C \div T) + 1 ELSE C \div T
            /\ Len(a) = T =>
                   /\ SumSeq(a) = C
                   /\ \A i, j \in DOMAIN a : a[i] - a[j] <= 1

C4_Witness ==
    /\ allocations.band > 0
    /\ section.difficulty_distribution[allocations.band].count = 5
    /\ allocations.counts = <<3, 2>>
    /\ Len(sec_questions) = 5

\* C5 (as claimed): when a section with at least one topic has been built,
\* the counts requested from generation over all its cells add up to the
\* section's question_count.
C5_RequestedIsQuestionCount ==
    (sec_pc = "returned" /\ Len(section.topics) >= 1) =>
        requested = section.question_count

\* C6 (as claimed): a cell whose multimodal generation failed, by raising or
\* by ending with no accepted question, got a text-only attempt with the same
\* target count.
C6_MultimodalFailureFallsBack ==
    (last_cell.multimodal # "none"
       /\ (last_cell.multimodal = "raised" \/ last_cell.multimodal_got = 0)) =>
        (last_cell.text /\ last_cell.text_n = last_cell.n)

(***************************************************************************)
(* Claims about the Question Bank and build_paper (checked under           *)
(* SpecPaper).                                                             *)
(***************************************************************************)
is_used(id) == id \in used_question_ids

\* C8: an add_questions call that repeats the preceding add_questions call
\* (same list) leaves the persisted identifier set, the in-memory set and the
\* accumulation list as the first call left them.
C8_AddIdempotent ==
    [][ \A qs \in Batches :
          (AddQuestions(qs) /\ last_add.times > 0 /\ last_add.batch = qs) =>
              /\ file.exists /\ file'.exists
              /\ load_state(file') = load_state(file)
              /\ used_question_ids' = used_question_ids
              /\ all_questions' = all_questions ]_vars

C8_Witness ==
    /\ last_add.times = 2
    /\ Len(last_add.batch) = 2
    /\ last_add.batch[1].question_id = last_add.batch[2].question_id
    /\ Len(all_questions) = 1

\* C9: without a clear in between, the persisted set holds the identifier of
\* every question of every paper built, a bank loaded from the file reports
\* each of them as used, and loading the file again yields the same set.
C9_PersistedSuperset ==
    /\ ever_built \subseteq load_state(file)
    /\ ever_built \subseteq used_question_ids
    /\ loads >= 1 =>
           /\ used_question_ids = load_state(file)
           /\ \A id \in ever_built : is_used(id)

C9_Witness ==
    /\ loads = 2
    /\ ever_built = Ids
    /\ used_question_ids = Ids
    /\ all_questions = <<>>

C11_ValidationAdvisory ==
    /\ [](paper.built =>
            /\ paper.errors = paper_validate(paper.questions)
            /\ Range(ids_of(paper.questions)) \subseteq used_question_ids
            /\ file.exists
            /\ Range(ids_of(paper.questions)) \subseteq Range(file.ids))
    /\ [][(pb_pc = "building" /\ sec_pc = "idle" /\ pb_pc' # "building")
           => /\ pb_pc' = "idle"
              /\ paper'.built
              /\ paper'.questions = paper_questions
              /\ Range(ids_of(paper_questions)) \subseteq used_question_ids']_vars

\* a paper with duplicate identifiers and an invalid question was returned
\* and registered
C11_Witness ==
    /\ paper.built
    /\ "duplicate_ids" \in Range(paper.errors)
    /\ "question_invalid" \in Range(paper.errors)
    /\ Range(ids_of(paper.questions)) \subseteq used_question_ids

(***************************************************************************)
(* C12: every Paper returned by build_paper has a non-empty question list  *)
(* in which no two questions share an identifier.                          *)
(***************************************************************************)
C12_PaperNonEmptyDistinct ==
    paper.built =>
        /\ Len(paper.questions) > 0
        /\ Cardinality(Range(ids_of(paper.questions))) = Len(paper.questions)

(***************************************************************************)
(* The Question invariants as the claims state them, written without       *)
(* Question.validate.                                                      *)
(***************************************************************************)
option_fields == <<"option_a_en", "option_b_en", "option_c_en", "option_d_en">>

options_distinct(q) ==
    \A i, j \in 1..4 :
        i < j => lower(strip(q[option_fields[i]])) # lower(strip(q[option_fields[j]]))

\* the checks of the base gate, one by one
failed_checks(q) ==
       (IF strip(q.question_text_en) # <<>> THEN {} ELSE {"question_text"})
    \cup {option_fields[i] : i \in {j \in 1..4 : strip(q[option_fields[j]]) = <<>>}}
    \cup (IF options_distinct(q) THEN {} ELSE {"distinct_options"})
    \cup (IF q.correct_answer \in ValidMarkers THEN {} ELSE {"marker"})
    \cup (IF Len(strip(q.explanation)) >= BaseMinExplanation THEN {} ELSE {"explanation"})
    \cup (IF strip(q.test_section) # <<>> THEN {} ELSE {"test_section"})
    \cup (IF strip(q.main_topic) # <<>> THEN {} ELSE {"main_topic"})

\* the check a violation of validate names
check_named(v) ==
    CASE v = "question_text_empty" -> "question_text"
      [] v = "option_a_empty" -> "option_a_en"
      [] v = "option_b_empty" -> "option_b_en"
      [] v = "option_c_empty" -> "option_c_en"
      [] v = "option_d_empty" -> "option_d_en"
      [] v = "duplicate_options" -> "distinct_options"
      [] v = "bad_correct_answer" -> "marker"
      [] v \in {"explanation_empty", "explanation_too_short"} -> "explanation"
      [] v = "test_section_empty" -> "test_section"
      [] v = "main_topic_empty" -> "main_topic"
      [] OTHER -> "unknown"

\* the Question invariants: those checks without the one of the question
\* text, and the references (required, at least DefaultMinReferences)
violated_invariants(q) ==
    (failed_checks(q) \ {"question_text"})
    \cup (IF Len(q.references) >= DefaultMinReferences THEN {} ELSE {"references"})

C14_ParserRoundTrip ==
    (parse_out.called /\ parse_src.kind = "embedded") =>
        /\ ~parse_out.raised
        /\ parse_out.data = parse_src.array

\* a string that holds a comma which white space and "]" or "}" follow
RECURSIVE holds_comma_bracket(_)
holds_comma_bracket(v) ==
    CASE v.t = "str"  -> \E i \in DOMAIN v.s :
                             /\ v.s[i] = ","
                             /\ skip_ws(v.s, i + 1) <= Len(v.s)
                             /\ v.s[skip_ws(v.s, i + 1)] \in {"]", "}"}
      [] v.t = "list" -> \E i \in DOMAIN v.items : holds_comma_bracket(v.items[i])
      [] v.t = "dict" -> \E i \in DOMAIN v.members :
                             \/ holds_comma_bracket(JText(v.members[i][1]))
                             \/ holds_comma_bracket(v.members[i][2])
      [] OTHER -> FALSE

(***************************************************************************)
(* The cases of C14 that hold: when the prose before the array holds no    *)
(* "[" and the prose after it no "]", the parser returns the array's       *)
(* records in order; with one trailing comma inserted before the closing   *)
(* "]" it returns the same records, provided no string of the array holds  *)
(* a comma that white space and "]" or "}" follow.                         *)
(***************************************************************************)
ParserRoundTripPlainProse ==
    ( /\ parse_out.called /\ parse_src.kind = "embedded"
      /\ "[" \notin Range(parse_src.before)
      /\ "]" \notin Range(parse_src.after)
      /\ parse_src.comma => ~holds_comma_bracket(JArr(parse_src.array)) ) =>
        /\ ~parse_out.raised
        /\ parse_out.data = parse_src.array

\* two records between prose with braces, a trailing comma inserted
ParserRoundTripReached ==
    /\ parse_out.called /\ ~parse_out.raised
    /\ parse_src.kind = "embedded" /\ parse_src.comma
    /\ "{" \in Range(parse_src.before) /\ "{" \in Range(parse_src.after)
    /\ Len(parse_src.array) = 2
    /\ parse_out.data = parse_src.array

(***************************************************************************)
(* C15: the parser either raises or returns a non-empty list all of whose  *)
(* elements are mappings.                                                  *)
(***************************************************************************)
C15_NonEmptyListOfMappings ==
    (parse_out.called /\ ~parse_out.raised) =>
        /\ parse_out.data # <<>>
        /\ \A i \in DOMAIN parse_out.data : parse_out.data[i].t = "dict"

(***************************************************************************)
(* C16: an error raised by text-only generation for a cell, called         *)
(* directly or as the fallback after a multimodal failure, makes           *)
(* _build_section raise, and build_paper then ends with the error: no      *)
(* Paper is returned and nothing is registered.  A generator error after   *)
(* which the section goes on is an error of the multimodal attempt,        *)
(* followed by a text-only generation that returned questions.             *)
(***************************************************************************)
text_generation_raised(cell) == cell.text /\ cell.text_got = 0

C16_TextErrorPropagates ==
    /\ [][(requested' > requested /\ text_generation_raised(last_cell'))
             => sec_pc' = "raised"]_vars
    /\ [][(requested' > requested /\ sec_pc' = "run"
             /\ (last_cell'.multimodal = "raised" \/ text_generation_raised(last_cell')))
             => (last_cell'.multimodal = "raised" /\ last_cell'.text_got >= 1)]_vars
    /\ [][(pb_pc = "building" /\ sec_pc = "raised")
             => /\ pb_pc' = "raised"
                /\ ~paper'.built
                /\ UNCHANGED <<file, used_question_ids, all_questions>>]_vars
    /\ [](pb_pc = "raised" => ~paper.built)

\* build_paper ended with the error of a text-only fallback, in a bank that
\* holds the questions of an earlier paper
C16_Witness ==
    /\ pb_pc = "raised" /\ ~paper.built
    /\ last_cell.multimodal = "raised" /\ text_generation_raised(last_cell)
    /\ used_question_ids # {}

(***************************************************************************)
(* C17: in every state of the generation loop 0 <= len(questions) <= n;    *)
(* valid records of a response beyond the remaining quota are discarded,   *)
(* so generate_mcqs never returns more than n questions.                   *)
(***************************************************************************)
C17_AcceptedWithinQuota ==
    /\ Len(questions) >= 0
    /\ Len(questions) <= n
    /\ gen_pc = "returned" => Len(questions) \in 1..n

\* a response held more valid records than were asked for
C17_Witness ==
    /\ last.kind = "parsed"
    /\ last.valid > last.asked
    /\ Len(questions) = n
    /\ gen_pc = "returned"

(***************************************************************************)
(* C18: an attempt whose model call or parse fails uses up exactly one     *)
(* attempt, leaves the accepted list as it was and leaves the loop         *)
(* running (the next attempt follows while the budget lasts); the only     *)
(* error generate_mcqs raises is the one for no accepted question.         *)
(***************************************************************************)
attempt_failed(l) == l.kind \in {"model_error", "unparseable"}

C18_AttemptErrorsAbsorbed ==
    /\ [][(calls' # calls /\ attempt_failed(last'))
             => /\ attempts' = attempts + 1
                /\ questions' = questions
                /\ gen_pc' = "loop"
                /\ (attempts' < max_attempts => loop_condition')]_vars
    /\ [](gen_pc = "raised" => (Len(questions) = 0 /\ ~loop_condition))

\* the second attempt failed to parse after the first had accepted a question
C18_Witness ==
    /\ last.kind = "unparseable"
    /\ attempts = 2
    /\ Len(questions) = 1
    /\ gen_pc = "loop" /\ loop_condition

(***************************************************************************)
(* C20: each attempt adds exactly 1 to the attempt counter, makes exactly  *)
(* one llm_client.generate call and asks for exactly n - len(questions)    *)
(* questions, at least 1; the accepted list only grows: what was accepted  *)
(* stays, in place.                                                        *)
(***************************************************************************)
C20_AttemptStep ==
    /\ [][(attempts' # attempts \/ calls' # calls)
             => /\ attempts' = attempts + 1
                /\ calls' = calls + 1
                /\ last'.asked = n - Len(questions)
                /\ last'.asked >= 1]_vars
    /\ [][/\ Len(questions') >= Len(questions)
           /\ SubSeq(questions', 1, Len(questions)) = questions]_vars
    /\ [](attempts = calls)

\* a third attempt that asked for the one question still missing
C20_Witness ==
    /\ attempts = 3 /\ calls = 3
    /\ n = 3 /\ last.asked = 1
    /\ Len(questions) = 3

(***************************************************************************)
(* C19: within one response a record that lacks a required field or fails  *)
(* validation is skipped and the batch goes on: after the loop the list is *)
(* what it was, followed by the records of the response that convert and   *)
(* pass both layers, in response order, up to the n-th question.           *)
(***************************************************************************)
passing_records(b) ==
    SelectSeq(b.resp, LAMBDA d : record_accepted(d, b.ctx, b.config))

C19_BadRecordsSkipped ==
    batch_out.done =>
        LET pass == passing_records(batch_in)
            room == batch_in.n - Len(batch_in.questions)
            take == IF Len(pass) < room THEN Len(pass) ELSE room
        IN batch_out.questions =
               batch_in.questions \o [j \in 1..take |-> candidate(pass[j], batch_in.ctx)]

\* a record without a required field, then one with a bad marker, then a
\* valid one, which was accepted
C19_Witness ==
    /\ batch_out.done
    /\ batch_in.resp = <<R_missing_field, R_bad_answer, R_good>>
    /\ batch_out.questions =
           Append(batch_in.questions, candidate(R_good, batch_in.ctx))
    /\ Len(batch_in.questions) = 1

(***************************************************************************)
(* Further claims about the Section Builder (checked under SpecSection).   *)
(***************************************************************************)

\* C21: every question the Section Builder holds, and so every question it
\* returns, carries the section's configured name in test_section, whichever
\* path produced it, and not the main topic the generator put there.
C21_SectionNameStamped ==
    \A i \in DOMAIN sec_questions :
        /\ sec_questions[i].test_section = section.name
        /\ sec_questions[i].test_section # sec_questions[i].main_topic

\* a returned list with a multimodal question and a text-only fallback one
C21_Witness ==
    /\ sec_pc = "returned"
    /\ \E i, j \in DOMAIN sec_questions :
          /\ sec_questions[i].has_diagram
          /\ ~sec_questions[j].has_diagram
    /\ last_cell.multimodal = "raised" /\ last_cell.text_got > 0

\* C22: no generation call, text or multimodal, has a target count of 0: a
\* band with count 0 changes nothing but the band cursor, every call asks
\* for at least one question, and in a band with count C below the number
\* of topics only the first C topics get a call.
C22_NoZeroTargetCall ==
    /\ [](last_cell # NoCell =>
             /\ last_cell.n >= 1
             /\ last_cell.text => last_cell.text_n >= 1)
    /\ [][(in_band /\ cur_band.count = 0) =>
             UNCHANGED <<requested, last_cell, sec_questions, allocations, sec_pc>>]_vars
    /\ [][(requested' # requested \/ last_cell' # last_cell
              \/ sec_questions' # sec_questions) =>
             /\ in_cell
             /\ cur_topic_count >= 1
             /\ requested' = requested + cur_topic_count
             /\ last_cell'.n = cur_topic_count
             /\ (cur_band.count < num_topics => topic_idx <= cur_band.count)]_vars

\* a band with count 0 was skipped, then a band with count 1 over two topics
\* made its single call for the first topic
C22_Witness ==
    /\ sec_pc = "returned"
    /\ Len(section.difficulty_distribution) = 2
    /\ section.difficulty_distribution[1].count = 0
    /\ section.difficulty_distribution[2].count = 1
    /\ Len(section.topics) = 2
    /\ allocations.counts = <<1, 0>>
    /\ requested = 1
    /\ Len(sec_questions) = 1

\* C23 (as claimed): for a section with no configured topics, whatever its
\* bands are, the Section Builder makes no generation call, raises no error
\* and returns an empty list.
C23_NoTopicsSectionSkipped ==
    Len(section.topics) = 0 =>
        /\ sec_pc # "raised"
        /\ requested = 0 /\ last_cell = NoCell
        /\ sec_questions = <<>>

(***************************************************************************)
(* Further claims about the Question Bank (checked under SpecPaper).       *)
(***************************************************************************)

\* C24: every completed add_questions or clear ends with the file holding
\* exactly the bank's in-memory identifiers, each once; after clear the set,
\* the list and the persisted set are empty and is_used is false for every
\* identifier.
C24_PersistedEqualsMemory ==
    /\ [][((\E qs \in Batches : AddQuestions(qs)) \/ Clear) =>
             /\ file'.exists
             /\ load_state(file') = used_question_ids'
             /\ Len(file'.ids) = Cardinality(used_question_ids')]_vars
    /\ [][Clear =>
             /\ used_question_ids' = {} /\ all_questions' = <<>>
             /\ load_state(file') = {}
             /\ \A id \in Ids : id \notin used_question_ids']_vars

\* a batch of two new identifiers was added and both are in the file
C24_Witness ==
    /\ last_add.times = 1
    /\ Len(last_add.batch) = 2
    /\ used_question_ids = Ids
    /\ load_state(file) = Ids
    /\ Len(file.ids) = 2
    /\ Len(all_questions) = 2

(***************************************************************************)
(* C25: validate applies each of its checks whatever the others found: in  *)
(* its result every failed check is named exactly once and no other check  *)
(* is named, so k failed checks give k violations; the question with a     *)
(* duplicated option, an empty option, an invalid marker and a too short   *)
(* explanation gets those four; the question is left as it was.            *)
(***************************************************************************)
BaseChecks ==
    {"question_text", "option_a_en", "option_b_en", "option_c_en", "option_d_en",
     "distinct_options", "marker", "explanation", "test_section", "main_topic"}

\* the shape of the question of test_invalid_question
is_test_invalid_question(q) ==
    /\ strip(q.question_text_en) # <<>>
    /\ lower(strip(q.option_a_en)) = lower(strip(q.option_b_en))
    /\ strip(q.option_a_en) # <<>>
    /\ strip(q.option_c_en) = <<>>
    /\ strip(q.option_d_en) # <<>>
    /\ q.correct_answer \notin ValidMarkers
    /\ Len(strip(q.explanation)) \in 1..(BaseMinExplanation - 1)
    /\ strip(q.test_section) # <<>> /\ strip(q.main_topic) # <<>>

C25_ChecksIndependent ==
    /\ [](val_out.called =>
             LET e == val_out.errors IN
             /\ \A i \in DOMAIN e : check_named(e[i]) \in BaseChecks
             /\ \A c \in BaseChecks :
                    Cardinality({i \in DOMAIN e : check_named(e[i]) = c})
                        = IF c \in failed_checks(val_q) THEN 1 ELSE 0
             /\ is_test_invalid_question(val_q) =>
                    e = <<"option_c_empty", "bad_correct_answer",
                          "explanation_too_short", "duplicate_options">>)
    /\ [][val_q' = val_q]_vars

\* the test's question has been validated
C25_Witness ==
    /\ val_out.called
    /\ is_test_invalid_question(val_q)
    /\ Len(val_out.errors) = 4

(***************************************************************************)
(* Claims about the raw model clients (checked under SpecClient).          *)
(***************************************************************************)

\* C26: one client call makes at most max_retries HTTP calls; a success
\* ends it at once; it sleeps the fixed delay once between a failed call
\* and the next call and not after the last one; it raises LLMError with
\* the last error exactly after max_retries failures in a row.  Nothing of
\* the Generation Loop's budget enters.
C26_ClientRetryBound ==
    /\ [](/\ cl_http <= cl_config.max_retries
          /\ Len(cl_failures) <= cl_config.max_retries
          /\ \A i \in DOMAIN cl_waits : cl_waits[i] = cl_config.retry_delay_seconds
          /\ cl_pc = "loop" =>
                 /\ cl_http = Len(cl_failures)
                 /\ Len(cl_waits) = Min(Len(cl_failures),
                                        IF cl_config.max_retries > 0
                                        THEN cl_config.max_retries - 1 ELSE 0)
          /\ cl_pc = "returned" =>
                 /\ cl_result.kind = "text"
                 /\ cl_http = Len(cl_failures) + 1
                 /\ Len(cl_waits) = Len(cl_failures)
          /\ cl_pc = "raised" =>
                 /\ cl_result.kind = "LLMError"
                 /\ cl_result.last_error = last_error
                 /\ Len(cl_failures) = cl_config.max_retries
                 /\ cl_http = cl_config.max_retries
                 /\ Len(cl_waits) = IF cl_config.max_retries > 0
                                    THEN cl_config.max_retries - 1 ELSE 0)
    /\ [][cl_http' # cl_http => (cl_pc = "loop" /\ cl_http' = cl_http + 1)]_vars
    /\ [][(cl_pc = "returned" \/ cl_pc = "raised") => (clientVars' = clientVars)]_vars

\* the default three calls all failed: two sleeps, then the error
C26_Witness ==
    /\ cl_pc = "raised"
    /\ cl_config.max_retries = DefaultMaxRetries
    /\ cl_http = 3
    /\ cl_waits = <<DefaultRetryDelaySeconds, DefaultRetryDelaySeconds>>
    /\ cl_failures = <<"http", "json", "format">>

(***************************************************************************)
(* Claims about concurrent writers of the state file (checked under        *)
(* SpecRace).                                                              *)
(***************************************************************************)
batch_ids(b) == Range(ids_of(race_batch[b]))

both_saved == \A b \in Banks : race_pc[b] = "saved"

\* both instances loaded the file before either saved
loaded_before_saves == \A b \in Banks : race_hist.saves_at_load[b] = 0

\* C27: when two instances loaded from the same file and each completed
\* add_questions, the file holds exactly the set of the instance that saved
\* last: what both loaded plus the last saver's own batch.  Every identifier
\* that only the other instance added is missing from the persisted set.
C27_LostUpdate ==
    (both_saved /\ loaded_before_saves) =>
        LET w == race_hist.saves[2]
            o == race_hist.saves[1]
        IN  /\ w # o
            /\ load_state(race_file) = race_used[w]
            /\ \A id \in batch_ids(o) \ race_used[w] :
                   /\ id \in race_used[o]
                   /\ id \notin load_state(race_file)

\* the two instances added different identifiers, both adds completed, and
\* the file lacks the identifier added by the first saver
C27_Witness ==
    /\ both_saved
    /\ batch_ids(1) = {"X"} /\ batch_ids(2) = {"Y"}
    /\ race_hist.saves = <<1, 2>>
    /\ "X" \in race_used[1]
    /\ load_state(race_file) = {"Y"}

(***************************************************************************)
(* C28 (as claimed): a response that holds a single JSON object and no     *)
(* top-level array, in prose without brackets or braces, the object's own  *)
(* fields being of any kind (a list among them), is parsed to the          *)
(* one-element list holding that object.                                   *)
(***************************************************************************)
C28_SingleObjectWrapped ==
    ( /\ parse_out.called /\ parse_src.kind = "object"
      /\ Range(parse_src.before) \cap {"[", "]", "{", "}"} = {}
      /\ Range(parse_src.after) \cap {"[", "]", "{", "}"} = {} ) =>
        /\ ~parse_out.raised
        /\ parse_out.data = parse_src.array

(***************************************************************************)
(* C29: a build_paper call that ends with the error of a cell's generation *)
(* leaves the bank as it was: from the start of the build to the raise no  *)
(* step changes the identifier set, the accumulation list or the state     *)
(* file, so no question of the cells and sections that had succeeded is    *)
(* registered.  (Checked under SpecBuild.)                                 *)
(***************************************************************************)
bank_as_constructed ==
    /\ used_question_ids = load_state(file)
    /\ all_questions = <<>>
    /\ file \in {NoFile, [exists |-> TRUE, ids |-> <<"X">>]}

C29_FailedBuildLeavesBank ==
    /\ [][(pb_pc = "building" /\ pb_pc' # "idle") =>
             /\ file' = file
             /\ used_question_ids' = used_question_ids
             /\ all_questions' = all_questions]_vars
    /\ []((pb_pc = "building" \/ pb_pc = "raised") =>
             /\ bank_as_constructed
             /\ \A i \in DOMAIN paper_questions :
                    paper_questions[i].question_id \in used_question_ids
                        => paper_questions[i].question_id \in load_state(file))
    /\ [](pb_pc = "raised" => (~paper.built /\ ever_built = {}))

\* the first section was built and gave a question with a new identifier,
\* then a cell of the second section raised: the bank does not hold it
C29_Witness ==
    /\ pb_pc = "building" /\ sec_pc = "raised"
    /\ text_generation_raised(last_cell)
    /\ Len(paper_questions) >= 1
    /\ paper_questions[1].question_id \notin used_question_ids
    /\ paper_questions[1].question_id \notin load_state(file)
    /\ all_questions = <<>>

(***************************************************************************)
(* C30: on one QuestionBank instance, whatever add_questions and clear     *)
(* calls were made, the accumulation list holds no identifier twice and    *)
(* only identifiers of the set; add_questions keeps every identifier of    *)
(* the set and appends, in batch order, the first occurrence of each       *)
(* identifier that was not in the set.  (Checked under SpecPaper.)         *)
(***************************************************************************)
\* the questions of a batch that are first of their identifier and new
first_new(qs, used) ==
    LET keep(i) == /\ qs[i].question_id \notin used
                   /\ \A j \in 1..(i - 1) : qs[j].question_id # qs[i].question_id
        f[i \in 0..Len(qs)] ==
            IF i = 0 THEN <<>>
            ELSE IF keep(i) THEN Append(f[i - 1], qs[i]) ELSE f[i - 1]
    IN f[Len(qs)]

C30_BankListConsistent ==
    /\ [](/\ \A i, j \in DOMAIN all_questions :
                i # j => all_questions[i].question_id # all_questions[j].question_id
          /\ Range(ids_of(all_questions)) \subseteq used_question_ids)
    /\ [][\A qs \in Batches : AddQuestions(qs) =>
             /\ used_question_ids \subseteq used_question_ids'
             /\ used_question_ids' = used_question_ids \cup Range(ids_of(qs))
             /\ all_questions' = all_questions \o first_new(qs, used_question_ids)]_vars

\* a batch holding a new identifier twice was added to a bank that held
\* another question: the list gained the first occurrence only
C30_Witness ==
    /\ last_add.times = 1
    /\ Len(last_add.batch) = 2
    /\ last_add.batch[1].question_id = last_add.batch[2].question_id
    /\ Len(all_questions) = 2
    /\ all_questions[2] = last_add.batch[1]
    /\ all_questions[1].question_id # last_add.batch[1].question_id

=============================================================================
